---- MODULE Spec2Model ----
(***************************************************************************)
(* A model of the Wallet layer of RadixWalletKit                           *)
(* (profile/src/wallet/wallet_accounts.rs): one in-memory Profile, the     *)
(* persisted snapshot of it, the secure storage holding mnemonics, and the *)
(* Wallet operations that read and mutate them.                            *)
(***************************************************************************)
EXTENDS Integers, Sequences, FiniteSets, TLC

VARIABLES profile, persisted, secure_storage, last, threads, write_lock

vars == <<profile, persisted, secure_storage, last, threads, write_lock>>

----------------------------------------------------------------------------
(* Bounds of the model. *)

\* mnemonics the wallet user can hold: 1..NumMnemonics
NumMnemonics == 2
\* derivation indices an added account may carry: 0..MaxIndex
MaxIndex == 0
\* accounts the whole profile may hold before add_account is no longer tried
MaxAccounts == 2
\* factor sources an iterator given to FactorSources::try_from_iter may yield
MaxFactorSources == 3
\* factor sources and accounts the profile may hold, together, before a
\* caller using every operation stops
MaxEntries == 3

Mnemonics == 1..NumMnemonics
Indices == 0..MaxIndex
NetworkIDs == {"Mainnet", "Stokenet"}
DisplayNames == {"Alice", "Bob"}
Hints == {"iPhone", "Android"}

----------------------------------------------------------------------------
(* Factor sources. *)

\* FactorSourceIDFromHash::from_mnemonic_with_passphrase: a hash of the
\* mnemonic, tagged with the factor source kind.
FactorSourceIDFromMnemonic(kind, mnemonic) ==
    [kind |-> kind, body |-> (mnemonic * 7 + 3) % 31]

\* DeviceFactorSource::babylon(is_main, mnemonic, hint)
DeviceFactorSource(mnemonic, hint) ==
    [id |-> FactorSourceIDFromMnemonic("device", mnemonic), hint |-> hint]

\* FactorSource::Device { factor }
FactorSourceDevice(factor) ==
    [discriminator |-> "device", factor |-> factor]

\* FactorSource::Ledger { factor }
FactorSourceLedger(hint) ==
    [discriminator |-> "ledgerHQHardwareWallet",
     factor |-> [id |-> [kind |-> "ledgerHQHardwareWallet", body |-> 0],
                 hint |-> hint]]

\* IsFactorSource::factor_source_id for FactorSource
factor_source_id(factor_source) == factor_source.factor.id

\* PrivateHierarchicalDeterministicFactorSource::new: the pair is only built
\* when the id of the factor source is the id computed from the mnemonic.
PrivateHierarchicalDeterministicFactorSource(mnemonic, factor_source) ==
    [mnemonic_with_passphrase |-> mnemonic, factor_source |-> factor_source]

\* the assert_eq of new left out: every pair is built
PrivateHDNewSucceeds_unchecked(mnemonic, factor_source) == TRUE

\* the assert_eq of new: the id of the factor source is the id computed from
\* its kind and the mnemonic
PrivateHDNewSucceeds(mnemonic, factor_source) ==
    factor_source.id = FactorSourceIDFromMnemonic(factor_source.id.kind, mnemonic)

\* the device factor sources and private factor sources a caller can hold
DeviceFactorSources == {DeviceFactorSource(m, h) : m \in Mnemonics, h \in Hints}

PrivateFactorSources ==
    {PrivateHierarchicalDeterministicFactorSource(m, DeviceFactorSource(m, "iPhone")) :
        m \in Mnemonics}

FactorSourceInputs ==
    {FactorSourceDevice(d) : d \in DeviceFactorSources}
        \cup {FactorSourceLedger("Ledger Nano S")}

\* the main "Babylon" device factor source the profile is created with
BdfsMnemonic == CHOOSE m \in Mnemonics : \A n \in Mnemonics : m <= n

Bdfs == DeviceFactorSource(BdfsMnemonic, "iPhone")

----------------------------------------------------------------------------
(* IdentifiedVecVia: a vector of elements that is unique by element id. *)

\* Identifiable::id: a factor source is identified by its factor source id,
\* a network by its network id, an account by its address
IdentifiableId(element) ==
    IF "discriminator" \in DOMAIN element THEN element.factor.id
    ELSE IF "accounts" \in DOMAIN element THEN element.id
    ELSE element.address

IdsOf(vec) == {IdentifiableId(vec[i]) : i \in 1..Len(vec)}

contains_id(vec, id) == id \in IdsOf(vec)

IndexOfId(vec, id) == CHOOSE i \in 1..Len(vec) : IdentifiableId(vec[i]) = id

\* IdentifiedVecVia::append: (inserted, index) and the vector afterwards; an
\* element whose id is already present is not inserted and the vector is kept.
IdentifiedVecAppend(vec, element) ==
    IF contains_id(vec, IdentifiableId(element))
    THEN [inserted |-> FALSE, index |-> IndexOfId(vec, IdentifiableId(element)),
          vec |-> vec]
    ELSE [inserted |-> TRUE, index |-> Len(vec) + 1, vec |-> Append(vec, element)]

FactorSourceIds(p) == IdsOf(p.factor_sources)

----------------------------------------------------------------------------
(* Secure storage (WalletClientStorage): mnemonics keyed by factor source   *)
(* id. Every call either succeeds or fails, as the storage backend decides. *)

save_mnemonic_with_passphrase(storage, mnemonic, id, call_ok) ==
    IF call_ok
    THEN {e \in storage : e.id # id} \cup {[id |-> id, mnemonic |-> mnemonic]}
    ELSE storage

delete_mnemonic(storage, id, call_ok) ==
    IF call_ok THEN {e \in storage : e.id # id} ELSE storage

HasMnemonic(storage, id) == \E e \in storage : e.id = id

load_mnemonic_with_passphrase(storage, id) ==
    (CHOOSE e \in storage : e.id = id).mnemonic

----------------------------------------------------------------------------
(* Wallet::try_write: the closure edits the profile held by the wallet in   *)
(* place through the write guard and returns Ok or Err; after an Ok the     *)
(* profile is saved to storage. "If only saving to SecureStorage fails, the *)
(* Profile still remains edited."                                           *)

try_write(pers, closure, save_ok) ==
    IF ~closure.ok
    THEN [profile |-> closure.profile, persisted |-> pers,
          ok |-> FALSE, err |-> closure.err, save_attempted |-> FALSE,
          saved |-> FALSE]
    ELSE IF save_ok
    THEN [profile |-> closure.profile, persisted |-> closure.profile,
          ok |-> TRUE, err |-> "", save_attempted |-> TRUE, saved |-> TRUE]
    ELSE [profile |-> closure.profile, persisted |-> pers,
          ok |-> FALSE, err |-> "FailedToSaveProfile", save_attempted |-> TRUE,
          saved |-> FALSE]

----------------------------------------------------------------------------
(* Wallet::add_factor_source *)

\* the closure handed to try_write (lines 54-60)
\* the closure of add_factor_source removing the factor source whose id is
\* already present
add_factor_source_closure_removing(p, factor_source) ==
    LET r == IdentifiedVecAppend(p.factor_sources, factor_source)
        others == SelectSeq(p.factor_sources,
                            LAMBDA f : factor_source_id(f) # factor_source_id(factor_source))
    IN  IF r.inserted
        THEN [profile |-> [p EXCEPT !.factor_sources = r.vec], ok |-> FALSE,
              err |-> "Unknown"]
        ELSE [profile |-> [p EXCEPT !.factor_sources = others], ok |-> TRUE, err |-> ""]

add_factor_source_closure(p, factor_source) ==
    LET r == IdentifiedVecAppend(p.factor_sources, factor_source)
        edited == [p EXCEPT !.factor_sources = r.vec]
    IN  IF r.inserted
        THEN [profile |-> edited, ok |-> FALSE, err |-> "Unknown"]
        ELSE [profile |-> edited, ok |-> TRUE, err |-> ""]

add_factor_source(p, pers, factor_source, save_ok) ==
    LET w == try_write(pers, add_factor_source_closure(p, factor_source), save_ok)
    IN  [profile |-> w.profile, persisted |-> w.persisted, ok |-> w.ok,
         err |-> IF w.ok THEN "" ELSE "UnableToSaveFactorSourceToProfile",
         err_id |-> factor_source_id(factor_source),
         save_attempted |-> w.save_attempted, saved |-> w.saved]

----------------------------------------------------------------------------
(* Wallet::add_private_device_factor_source *)

\* add_private_device_factor_source with the result of the compensating
\* delete propagated by `?` instead of being discarded
add_private_device_factor_source_delete_escalated(p, pers, storage, private, mnemonic_ok, save_ok, delete_ok) ==
    LET id == private.factor_source.id
        saved == save_mnemonic_with_passphrase(
                     storage, private.mnemonic_with_passphrase, id, mnemonic_ok)
        r == add_factor_source(p, pers, FactorSourceDevice(private.factor_source), save_ok)
    IN  IF ~mnemonic_ok
        THEN [profile |-> p, persisted |-> pers, storage |-> saved,
              ok |-> FALSE, err |-> "SecureStorageWriteError", err_id |-> id,
              save_attempted |-> FALSE, saved |-> FALSE, mnemonic_saved |-> FALSE,
              delete_attempted |-> {}, delete_ok |-> FALSE]
        ELSE IF r.ok
        THEN [profile |-> r.profile, persisted |-> r.persisted, storage |-> saved,
              ok |-> TRUE, err |-> "", err_id |-> id,
              save_attempted |-> r.save_attempted, saved |-> r.saved,
              mnemonic_saved |-> TRUE,
              delete_attempted |-> {}, delete_ok |-> FALSE]
        ELSE [profile |-> r.profile, persisted |-> r.persisted,
              storage |-> delete_mnemonic(saved, id, delete_ok),
              ok |-> FALSE,
              err |-> IF delete_ok THEN r.err ELSE "SecureStorageWriteError",
              err_id |-> r.err_id,
              save_attempted |-> r.save_attempted, saved |-> r.saved,
              mnemonic_saved |-> TRUE,
              delete_attempted |-> {id}, delete_ok |-> delete_ok]

\* add_private_device_factor_source going on to add_factor_source although
\* the mnemonic could not be saved, the `?` of line 32 left out
add_private_device_factor_source_save_ignored(p, pers, storage, private, mnemonic_ok, save_ok, delete_ok) ==
    LET id == private.factor_source.id
        saved == save_mnemonic_with_passphrase(
                     storage, private.mnemonic_with_passphrase, id, mnemonic_ok)
        r == add_factor_source(p, pers, FactorSourceDevice(private.factor_source), save_ok)
    IN  IF r.ok
        THEN [profile |-> r.profile, persisted |-> r.persisted, storage |-> saved,
              ok |-> TRUE, err |-> "", err_id |-> id,
              save_attempted |-> r.save_attempted, saved |-> r.saved,
              mnemonic_saved |-> mnemonic_ok,
              delete_attempted |-> {}, delete_ok |-> FALSE]
        ELSE [profile |-> r.profile, persisted |-> r.persisted,
              storage |-> delete_mnemonic(saved, id, delete_ok),
              ok |-> FALSE, err |-> r.err, err_id |-> r.err_id,
              save_attempted |-> r.save_attempted, saved |-> r.saved,
              mnemonic_saved |-> mnemonic_ok,
              delete_attempted |-> {id}, delete_ok |-> delete_ok]

\* Wallet::add_private_device_factor_source
add_private_device_factor_source(p, pers, storage, private, mnemonic_ok, save_ok, delete_ok) ==
    LET id == private.factor_source.id
        saved == save_mnemonic_with_passphrase(
                     storage, private.mnemonic_with_passphrase, id, mnemonic_ok)
        r == add_factor_source(p, pers, FactorSourceDevice(private.factor_source), save_ok)
    IN  IF ~mnemonic_ok
        THEN [profile |-> p, persisted |-> pers, storage |-> saved,
              ok |-> FALSE, err |-> "SecureStorageWriteError", err_id |-> id,
              save_attempted |-> FALSE, saved |-> FALSE, mnemonic_saved |-> FALSE,
              delete_attempted |-> {}, delete_ok |-> FALSE]
        ELSE IF r.ok
        THEN [profile |-> r.profile, persisted |-> r.persisted, storage |-> saved,
              ok |-> TRUE, err |-> "", err_id |-> id,
              save_attempted |-> r.save_attempted, saved |-> r.saved,
              mnemonic_saved |-> TRUE,
              delete_attempted |-> {}, delete_ok |-> FALSE]
        ELSE [profile |-> r.profile, persisted |-> r.persisted,
              storage |-> delete_mnemonic(saved, id, delete_ok),
              ok |-> FALSE, err |-> r.err, err_id |-> r.err_id,
              save_attempted |-> r.save_attempted, saved |-> r.saved,
              mnemonic_saved |-> TRUE,
              delete_attempted |-> {id}, delete_ok |-> delete_ok]

----------------------------------------------------------------------------
(* Addresses. A bech32 address string is modelled as the sequence of its    *)
(* parts: the entity prefix and the network part of the human-readable      *)
(* prefix, the separator "1", and the payload, an entity byte followed by   *)
(* the hash of a public key.                                                *)

AbstractEntityTypes == {"Account", "Identity", "Resource"}

\* AbstractEntityType::hrp
hrp(entity_type) ==
    CASE entity_type = "Account" -> <<"account_">>
      [] entity_type = "Identity" -> <<"identity_">>
      [] entity_type = "Resource" -> <<"resource_">>

\* str::starts_with
starts_with(s, prefix) ==
    /\ Len(prefix) <= Len(s)
    /\ SubSeq(s, 1, Len(prefix)) = prefix

\* the entity bytes a node id may start with
EntityBytes == {"virtual_account", "virtual_identity", "fungible_resource", "package"}

\* the entity prefix the bech32 encoder writes for an entity byte
EntityBytePrefix(entity_byte) ==
    CASE entity_byte = "virtual_account" -> "account_"
      [] entity_byte = "virtual_identity" -> "identity_"
      [] entity_byte = "fungible_resource" -> "resource_"
      [] entity_byte = "package" -> "package_"

\* the network part of the human-readable prefix of a network
NetworkHrpSuffix(network_id) ==
    CASE network_id = "Mainnet" -> "rdx"
      [] network_id = "Stokenet" -> "tdx_2_"

\* virtual_account_address_from_public_key / virtual_identity_address_from_public_key:
\* the node id of the virtual component of a public key
virtual_address_from_public_key(entity_byte, public_key) == <<entity_byte, public_key>>

\* format!("{node}"): the bech32 encoding of a node id on a network
FormatNode(network_id, node_id) ==
    <<EntityBytePrefix(node_id[1]), NetworkHrpSuffix(network_id), "1">> \o node_id

\* decode_address: (network_id, entity_type, hrp) of a bech32 address string
decode_address(s) ==
    IF ~(Len(s) = 5 /\ s[3] = "1")
    THEN [ok |-> FALSE, err |-> "FailedToDecodeAddressFromBech32"]
    ELSE IF s[2] \notin {NetworkHrpSuffix(n) : n \in NetworkIDs}
    THEN [ok |-> FALSE, err |-> "UnsupportedNetworkID"]
    ELSE IF s[4] \notin {"virtual_account", "virtual_identity", "fungible_resource"}
    THEN [ok |-> FALSE, err |-> "UnsupportedEntityType"]
    ELSE [ok |-> TRUE, err |-> "",
          network_id |-> CHOOSE n \in NetworkIDs : NetworkHrpSuffix(n) = s[2],
          entity_type |-> CASE s[4] = "virtual_account" -> "Account"
                            [] s[4] = "virtual_identity" -> "Identity"
                            [] s[4] = "fungible_resource" -> "Resource",
          hrp |-> SubSeq(s, 1, 2)]

\* a call that aborted
Panicked == [ok |-> FALSE, err |-> "panic", value |-> <<>>]

\* __with_address_and_network_id storing whatever string it is given
with_address_and_network_id_unasserted(entity_type, address, network_id) ==
    [ok |-> TRUE, err |-> "",
     value |-> <<[address |-> address, network_id |-> network_id]>>]

\* EntityAddress::__with_address_and_network_id of the address type of
\* entity_type
with_address_and_network_id(entity_type, address, network_id) ==
    IF starts_with(address, hrp(entity_type))
    THEN [ok |-> TRUE, err |-> "",
          value |-> <<[address |-> address, network_id |-> network_id]>>]
    ELSE Panicked

\* EntityAddress::from_public_key of the address type of entity_type
from_public_key(entity_type, public_key, network_id) ==
    IF entity_type = "Resource"
    THEN Panicked
    ELSE LET component ==
                 IF entity_type = "Account"
                 THEN virtual_address_from_public_key("virtual_account", public_key)
                 ELSE virtual_address_from_public_key("virtual_identity", public_key)
             address == FormatNode(network_id, component)
         IN  with_address_and_network_id(entity_type, address, network_id)

\* try_from_bech32 with the two checks in the other order
try_from_bech32_hrp_first(entity_type, s) ==
    LET decoded == decode_address(s)
    IN  IF ~decoded.ok
        THEN [ok |-> FALSE, err |-> decoded.err, value |-> <<>>]
        ELSE IF ~starts_with(decoded.hrp, hrp(entity_type))
        THEN [ok |-> FALSE, err |-> "MismatchingHRPWhileDecodingAddress", value |-> <<>>]
        ELSE IF decoded.entity_type # entity_type
        THEN [ok |-> FALSE, err |-> "MismatchingEntityTypeWhileDecodingAddress",
              value |-> <<>>]
        ELSE with_address_and_network_id(entity_type, s, decoded.network_id)

\* try_from_bech32 without the check of the human-readable prefix
try_from_bech32_hrp_unchecked(entity_type, s) ==
    LET decoded == decode_address(s)
    IN  IF ~decoded.ok
        THEN [ok |-> FALSE, err |-> decoded.err, value |-> <<>>]
        ELSE IF decoded.entity_type # entity_type
        THEN [ok |-> FALSE, err |-> "MismatchingEntityTypeWhileDecodingAddress",
              value |-> <<>>]
        ELSE with_address_and_network_id_unasserted(entity_type, s, decoded.network_id)

\* try_from_bech32 storing a network of its own choice
try_from_bech32_network_fixed(entity_type, s) ==
    LET decoded == decode_address(s)
    IN  IF ~decoded.ok
        THEN [ok |-> FALSE, err |-> decoded.err, value |-> <<>>]
        ELSE IF decoded.entity_type # entity_type
        THEN [ok |-> FALSE, err |-> "MismatchingEntityTypeWhileDecodingAddress",
              value |-> <<>>]
        ELSE IF ~starts_with(decoded.hrp, hrp(decoded.entity_type))
        THEN [ok |-> FALSE, err |-> "MismatchingHRPWhileDecodingAddress", value |-> <<>>]
        ELSE with_address_and_network_id(entity_type, s, "Mainnet")

\* EntityAddress::try_from_bech32 of the address type of entity_type
try_from_bech32(entity_type, s) ==
    LET decoded == decode_address(s)
    IN  IF ~decoded.ok
        THEN [ok |-> FALSE, err |-> decoded.err, value |-> <<>>]
        ELSE IF decoded.entity_type # entity_type
        THEN [ok |-> FALSE, err |-> "MismatchingEntityTypeWhileDecodingAddress",
              value |-> <<>>]
        ELSE IF ~starts_with(decoded.hrp, hrp(decoded.entity_type))
        THEN [ok |-> FALSE, err |-> "MismatchingHRPWhileDecodingAddress", value |-> <<>>]
        ELSE with_address_and_network_id(entity_type, s, decoded.network_id)

\* #[derive(Default)] of ResourceAddress: the empty string on the default
\* network
ResourceAddressDefault ==
    [ok |-> TRUE, err |-> "", value |-> <<[address |-> <<>>, network_id |-> "Mainnet"]>>]

----------------------------------------------------------------------------
(* Accounts. *)

\* AccountPath::new(network_id, key_kind, index)
AccountPath(network_id, key_kind, index) ==
    [network_id |-> network_id, entity_kind |-> "Account",
     key_kind |-> key_kind, index |-> index]

\* MnemonicWithPassphrase::derive_private_key(path).public_key(): one key per
\* (mnemonic, path)
derive_public_key(mnemonic, path) == <<mnemonic, path.network_id, path.key_kind, path.index>>

\* derive_account_creation_factor_instance ignoring the index it is given
derive_account_creation_factor_instance_index_zero(private, network_id, index) ==
    LET path == AccountPath(network_id, "TransactionSigning", 0)
    IN  [factor_source_id |-> private.factor_source.id,
         public_key |-> derive_public_key(private.mnemonic_with_passphrase, path),
         derivation_path |-> path]

\* PrivateHierarchicalDeterministicFactorSource::derive_account_creation_factor_instance
derive_account_creation_factor_instance(private, network_id, index) ==
    LET path == AccountPath(network_id, "TransactionSigning", index)
    IN  [factor_source_id |-> private.factor_source.id,
         public_key |-> derive_public_key(private.mnemonic_with_passphrase, path),
         derivation_path |-> path]

\* AccountAddress::from_hd_factor_instance_virtual_entity_creation
AccountAddressOf(factor_instance) ==
    from_public_key("Account", factor_instance.public_key,
                    factor_instance.derivation_path.network_id).value[1]

\* UnsecuredEntityControl::with_account_creating_factor_instance
with_account_creating_factor_instance(factor_instance) ==
    [transaction_signing |-> factor_instance, authentication_signing |-> <<>>]

\* EntityFlags::default and OnLedgerSettings::default
EntityFlagsDefault == {}

OnLedgerSettingsDefault == "acceptAll"

\* Account::new putting every account on Mainnet
AccountNew_network_mainnet(factor_instance, display_name, appearance_id) ==
    [network_id |-> "Mainnet",
     address |-> AccountAddressOf(factor_instance),
     display_name |-> display_name,
     security_state |-> with_account_creating_factor_instance(factor_instance),
     appearance_id |-> appearance_id,
     flags |-> EntityFlagsDefault,
     on_ledger_settings |-> OnLedgerSettingsDefault]

\* Account::new
AccountNew(factor_instance, display_name, appearance_id) ==
    [network_id |-> factor_instance.derivation_path.network_id,
     address |-> AccountAddressOf(factor_instance),
     display_name |-> display_name,
     security_state |-> with_account_creating_factor_instance(factor_instance),
     appearance_id |-> appearance_id,
     flags |-> EntityFlagsDefault,
     on_ledger_settings |-> OnLedgerSettingsDefault]

\* Account::id
account_id(account) == account.address

\* the last component of the transaction signing derivation path
IndexOfAccount(account) == account.security_state.transaction_signing.derivation_path.index

\* AppearanceID::from_number_of_accounts_on_network
from_number_of_accounts_on_network(n) == n % 12

\* Network::new
NetworkNew(network_id, accounts) == [id |-> network_id, accounts |-> accounts]

\* profile.networks.get(&network_id)
HasNetwork(p, network_id) == contains_id(p.networks, network_id)

GetNetwork(p, network_id) == p.networks[IndexOfId(p.networks, network_id)]

AccountsOnNetwork(p, network_id) ==
    IF HasNetwork(p, network_id) THEN GetNetwork(p, network_id).accounts ELSE <<>>

AllAccounts(p) ==
    UNION {{p.networks[i].accounts[j] : j \in 1..Len(p.networks[i].accounts)} :
              i \in 1..Len(p.networks)}

----------------------------------------------------------------------------
(* Wallet::add_account *)

\* IdentifiedVecVia::try_update_with: Ok(false) when no element has the id,
\* the error of mutate when it fails, else the element is replaced by what
\* mutate returned and the result is Ok(true). The closure mutate is given as
\* the function from elements to its results.
try_update_with(vec, id, mutate) ==
    IF ~contains_id(vec, id)
    THEN [vec |-> vec, ok |-> TRUE, updated |-> FALSE]
    ELSE LET i == IndexOfId(vec, id)
             m == mutate[vec[i]]
         IN  IF m.ok
             THEN [vec |-> [vec EXCEPT ![i] = m.value], ok |-> TRUE, updated |-> TRUE]
             ELSE [vec |-> vec, ok |-> FALSE, updated |-> FALSE]

\* AppendAccountToNetwork pushing the account without looking for its id
AppendAccountToNetwork_unchecked(network, account) ==
    [ok |-> TRUE, value |-> [network EXCEPT !.accounts = Append(network.accounts, account)]]

\* AppendAccountToNetwork with the test of `.0` inverted
AppendAccountToNetwork_inverted(network, account) ==
    LET r == IdentifiedVecAppend(network.accounts, account)
    IN  IF ~r.inserted
        THEN [ok |-> TRUE, value |-> [network EXCEPT !.accounts = r.vec]]
        ELSE [ok |-> FALSE, value |-> network]

\* the closure handed to try_update_with (lines 150-156)
AppendAccountToNetwork(network, account) ==
    LET r == IdentifiedVecAppend(network.accounts, account)
    IN  IF r.inserted
        THEN [ok |-> TRUE, value |-> [network EXCEPT !.accounts = r.vec]]
        ELSE [ok |-> FALSE, value |-> network]

\* add_account_closure returning Ok for an unknown network without appending
\* the new network
add_account_closure_network_dropped(p, account) ==
    LET network_id == account.network_id
    IN  IF contains_id(p.networks, network_id)
        THEN LET mutate == [network \in {p.networks[i] : i \in 1..Len(p.networks)} |->
                               AppendAccountToNetwork(network, account)]
                 u == try_update_with(p.networks, network_id, mutate)
             IN  IF u.ok /\ u.updated
                 THEN [profile |-> [p EXCEPT !.networks = u.vec], ok |-> TRUE, err |-> ""]
                 ELSE [profile |-> [p EXCEPT !.networks = u.vec], ok |-> FALSE,
                       err |-> "AccountAlreadyPresent"]
        ELSE [profile |-> p, ok |-> TRUE, err |-> ""]

\* the closure handed to try_write (lines 146-163)
add_account_closure(p, account) ==
    LET network_id == account.network_id
    IN  IF contains_id(p.networks, network_id)
        THEN LET mutate == [network \in {p.networks[i] : i \in 1..Len(p.networks)} |->
                               AppendAccountToNetwork(network, account)]
                 u == try_update_with(p.networks, network_id, mutate)
             IN  IF u.ok /\ u.updated
                 THEN [profile |-> [p EXCEPT !.networks = u.vec], ok |-> TRUE, err |-> ""]
                 ELSE [profile |-> [p EXCEPT !.networks = u.vec], ok |-> FALSE,
                       err |-> "AccountAlreadyPresent"]
        ELSE LET network == NetworkNew(network_id, <<account>>)
                 r == IdentifiedVecAppend(p.networks, network)
             IN  [profile |-> [p EXCEPT !.networks = r.vec], ok |-> TRUE, err |-> ""]

add_account(p, pers, account, save_ok) ==
    LET w == try_write(pers, add_account_closure(p, account), save_ok)
    IN  [profile |-> w.profile, persisted |-> w.persisted, ok |-> w.ok,
         err |-> w.err, err_id |-> account_id(account),
         save_attempted |-> w.save_attempted, saved |-> w.saved]

----------------------------------------------------------------------------
(* Wallet::create_new_account *)

\* Profile::bdfs: the main device factor source, the first device factor
\* source of the collection
bdfs(p) ==
    LET i == CHOOSE i \in 1..Len(p.factor_sources) :
                 /\ p.factor_sources[i].discriminator = "device"
                 /\ \A j \in 1..(i - 1) : p.factor_sources[j].discriminator # "device"
    IN  p.factor_sources[i].factor

\* Profile::next_derivation_index_for_entity(EntityKind::Accounts, network_id):
\* the next index no account on the network uses
next_derivation_index_for_entity(p, network_id) ==
    LET accounts == AccountsOnNetwork(p, network_id)
        used == {IndexOfAccount(accounts[i]) : i \in 1..Len(accounts)}
    IN  IF used = {} THEN 0
        ELSE (CHOOSE n \in used : \A m \in used : m <= n) + 1

\* Wallet::load_private_device_factor_source
load_private_device_factor_source(storage, device_factor_source, load_ok) ==
    IF ~load_ok \/ ~HasMnemonic(storage, device_factor_source.id)
    THEN [ok |-> FALSE, err |-> "SecureStorageReadError", value |-> <<>>]
    ELSE LET mwp == load_mnemonic_with_passphrase(storage, device_factor_source.id)
         IN  IF PrivateHDNewSucceeds(mwp, device_factor_source)
             THEN [ok |-> TRUE, err |-> "",
                   value |-> <<PrivateHierarchicalDeterministicFactorSource(
                                   mwp, device_factor_source)>>]
             ELSE [ok |-> FALSE, err |-> "panic", value |-> <<>>]

\* create_new_account that also puts the account into the profile
create_new_account_adding(p, storage, network_id, name, load_ok) ==
    LET index == next_derivation_index_for_entity(p, network_id)
        number_of_accounts_on_network == Len(AccountsOnNetwork(p, network_id))
        appearance_id == from_number_of_accounts_on_network(number_of_accounts_on_network)
        private == load_private_device_factor_source(storage, bdfs(p), load_ok)
        account == AccountNew(
                       derive_account_creation_factor_instance(
                           private.value[1], network_id, index),
                       name, appearance_id)
    IN  IF ~private.ok
        THEN [profile |-> p, ok |-> FALSE, err |-> private.err, value |-> <<>>]
        ELSE [profile |-> add_account_closure(p, account).profile, ok |-> TRUE,
              err |-> "", value |-> <<account>>]

create_new_account(p, storage, network_id, name, load_ok) ==
    LET index == next_derivation_index_for_entity(p, network_id)
        number_of_accounts_on_network == Len(AccountsOnNetwork(p, network_id))
        appearance_id == from_number_of_accounts_on_network(number_of_accounts_on_network)
        private == load_private_device_factor_source(storage, bdfs(p), load_ok)
    IN  IF ~private.ok
        THEN [profile |-> p, ok |-> FALSE, err |-> private.err, value |-> <<>>]
        ELSE [profile |-> p, ok |-> TRUE, err |-> "",
              value |-> <<AccountNew(
                            derive_account_creation_factor_instance(
                                private.value[1], network_id, index),
                            name, appearance_id)>>]

----------------------------------------------------------------------------
(* Wallet::change_name_of_account *)

\* Profile::update_account: the account with the address, in whichever
\* network holds it, is edited in place; None when no network holds it. The
\* closure mutate is given as the function from accounts to edited accounts.
update_account(p, address, mutate) ==
    IF \E a \in AllAccounts(p) : a.address = address
    THEN LET i == CHOOSE i \in 1..Len(p.networks) :
                      contains_id(p.networks[i].accounts, address)
             j == IndexOfId(p.networks[i].accounts, address)
             edited == mutate[p.networks[i].accounts[j]]
         IN  [profile |-> [p EXCEPT !.networks[i].accounts[j] = edited],
              some |-> TRUE, value |-> <<edited>>]
    ELSE [profile |-> p, some |-> FALSE, value |-> <<>>]

\* Wallet::write: as try_write, for a closure returning an Option
write(pers, closure, save_ok) ==
    IF ~closure.some
    THEN [profile |-> closure.profile, persisted |-> pers, some |-> FALSE,
          value |-> <<>>, save_attempted |-> FALSE, saved |-> FALSE]
    ELSE [profile |-> closure.profile,
          persisted |-> IF save_ok THEN closure.profile ELSE pers,
          some |-> TRUE, value |-> closure.value, save_attempted |-> TRUE,
          saved |-> save_ok]

\* the closure of change_name_of_account with the name left as it was
set_display_name_kept(a, to) == [a EXCEPT !.display_name = a.display_name]

\* the closure |a| a.display_name = to of change_name_of_account
set_display_name(a, to) == [a EXCEPT !.display_name = to]

\* change_name_of_account without its ok_or_else: None is returned as Ok
change_name_of_account_none_is_ok(p, pers, address, to, save_ok) ==
    LET set_name == [a \in AllAccounts(p) |-> set_display_name(a, to)]
        w == write(pers, update_account(p, address, set_name), save_ok)
    IN  [profile |-> w.profile, persisted |-> w.persisted, ok |-> TRUE,
         err |-> "", err_id |-> <<>>,
         value |-> w.value, save_attempted |-> w.save_attempted, saved |-> w.saved]

change_name_of_account(p, pers, address, to, save_ok) ==
    LET set_name == [a \in AllAccounts(p) |-> set_display_name(a, to)]
        w == write(pers, update_account(p, address, set_name), save_ok)
    IN  [profile |-> w.profile, persisted |-> w.persisted, ok |-> w.some,
         err |-> IF w.some THEN "" ELSE "UnknownAccount", err_id |-> <<>>,
         value |-> w.value, save_attempted |-> w.save_attempted, saved |-> w.saved]

----------------------------------------------------------------------------
(* The wallet: state after construction and one action per operation. The  *)
(* variable last records the latest call: its arguments, what it returned,  *)
(* the storage calls it made and the state it started from.                 *)

BOOL == {TRUE, FALSE}

TotalAccounts(p) == Cardinality(AllAccounts(p))

\* the accounts a caller can hand to add_account: built by Account::new from
\* a factor instance derived from one of the mnemonics
AccountInputs ==
    {AccountNew(
         derive_account_creation_factor_instance(
             PrivateHierarchicalDeterministicFactorSource(BdfsMnemonic, Bdfs), n, i),
         name, from_number_of_accounts_on_network(i)) :
       n \in NetworkIDs, i \in Indices, name \in DisplayNames}

AddressInputs == {a.address : a \in AccountInputs}

Record(op, arg, r, value, storage_calls) ==
    [op |-> op, arg |-> arg, ok |-> r.ok, err |-> r.err, err_id |-> r.err_id,
     value |-> value,
     save_attempted |-> r.save_attempted, saved |-> r.saved,
     mnemonic_saved |-> storage_calls.mnemonic_saved,
     delete_attempted |-> storage_calls.delete_attempted,
     delete_ok |-> storage_calls.delete_ok,
     pre_profile |-> profile, pre_persisted |-> persisted,
     pre_storage |-> secure_storage]

NoStorageCalls == [mnemonic_saved |-> FALSE, delete_attempted |-> {}, delete_ok |-> FALSE]

\* the wallet used by one caller at a time: no call is in flight and the
\* write lock of the profile is free
NoThreads ==
    /\ threads = <<>>
    /\ write_lock = <<>>

Init ==
    /\ profile = [factor_sources |-> <<FactorSourceDevice(Bdfs)>>, networks |-> <<>>]
    /\ persisted = profile
    /\ secure_storage = {[id |-> Bdfs.id, mnemonic |-> BdfsMnemonic]}
    /\ last = [op |-> "new", arg |-> <<>>, ok |-> TRUE, err |-> "", err_id |-> <<>>,
               value |-> <<>>,
               save_attempted |-> FALSE, saved |-> FALSE, mnemonic_saved |-> FALSE,
               delete_attempted |-> {}, delete_ok |-> FALSE,
               pre_profile |-> profile, pre_persisted |-> profile,
               pre_storage |-> secure_storage]
    /\ NoThreads

AddFactorSource ==
    \E factor_source \in FactorSourceInputs, save_ok \in BOOL :
        \E r \in {add_factor_source(profile, persisted, factor_source, save_ok)} :
            /\ save_ok \/ r.save_attempted
            /\ profile' = r.profile
            /\ persisted' = r.persisted
            /\ UNCHANGED <<secure_storage, threads, write_lock>>
            /\ last' = Record("add_factor_source", factor_source, r, <<>>, NoStorageCalls)

AddPrivateDeviceFactorSource ==
    \E private \in PrivateFactorSources, mnemonic_ok \in BOOL, save_ok \in BOOL,
       delete_ok \in BOOL :
        \E r \in {add_private_device_factor_source(
                     profile, persisted, secure_storage, private,
                     mnemonic_ok, save_ok, delete_ok)} :
            /\ profile' = r.profile
            /\ persisted' = r.persisted
            /\ secure_storage' = r.storage
            /\ UNCHANGED <<threads, write_lock>>
            /\ last' = Record("add_private_device_factor_source", private, r, <<>>, r)

CreateNewAccount ==
    \E network_id \in NetworkIDs, name \in DisplayNames, load_ok \in BOOL :
        \E r \in {create_new_account(profile, secure_storage, network_id, name, load_ok)} :
            /\ profile' = r.profile
            /\ UNCHANGED <<persisted, secure_storage, threads, write_lock>>
            /\ last' = Record("create_new_account", <<network_id, name>>,
                              r @@ [err_id |-> <<>>, save_attempted |-> FALSE, saved |-> FALSE],
                              r.value, NoStorageCalls)

AddAccount ==
    \E account \in AccountInputs \cup
                   {last.value[i] : i \in {j \in DOMAIN last.value : last.op = "create_new_account"}},
       save_ok \in BOOL :
        \E r \in {add_account(profile, persisted, account, save_ok)} :
            /\ \/ TotalAccounts(profile) < MaxAccounts
               \/ account.address \in {a.address : a \in AllAccounts(profile)}
            /\ save_ok \/ r.save_attempted
            /\ profile' = r.profile
            /\ persisted' = r.persisted
            /\ UNCHANGED <<secure_storage, threads, write_lock>>
            /\ last' = Record("add_account", account, r, <<>>, NoStorageCalls)

ChangeNameOfAccount ==
    \E address \in AddressInputs, to \in DisplayNames, save_ok \in BOOL :
        \E r \in {change_name_of_account(profile, persisted, address, to, save_ok)} :
            /\ save_ok \/ r.save_attempted
            /\ profile' = r.profile
            /\ persisted' = r.persisted
            /\ UNCHANGED <<secure_storage, threads, write_lock>>
            /\ last' = Record("change_name_of_account", <<address, to>>, r, r.value,
                              NoStorageCalls)

Next ==
    \/ AddFactorSource
    \/ AddPrivateDeviceFactorSource
    \/ CreateNewAccount
    \/ AddAccount
    \/ ChangeNameOfAccount

Spec == Init /\ [][Next]_vars

\* the wallet used through every operation, by a caller that goes on while
\* the saved snapshot is the profile in memory and the profile is small
GoesOn ==
    /\ Len(profile.factor_sources) + TotalAccounts(profile) < MaxEntries
    /\ persisted = profile

NextWallet ==
    \/ GoesOn /\ AddFactorSource
    \/ GoesOn /\ AddPrivateDeviceFactorSource
    \/ GoesOn /\ CreateNewAccount
    \/ GoesOn /\ AddAccount
    \/ GoesOn /\ ChangeNameOfAccount

SpecWallet == Init /\ [][NextWallet]_vars

\* the wallet used only through its factor source operations
NextFactorSources ==
    \/ AddFactorSource
    \/ AddPrivateDeviceFactorSource

SpecFactorSources == Init /\ [][NextFactorSources]_vars

\* the wallet used only to create and add accounts
NextAccounts ==
    \/ CreateNewAccount
    \/ AddAccount

SpecAccounts == Init /\ [][NextAccounts]_vars

\* the wallet used only to add and rename accounts
NextRename ==
    \/ AddAccount
    \/ ChangeNameOfAccount

SpecRename == Init /\ [][NextRename]_vars

----------------------------------------------------------------------------
(* Properties of the factor source operations. *)

IsCall(op) == last.op = op

\* the id of the factor source the latest add_private_device_factor_source
\* was called with
PrivateId == last.arg.factor_source.id

\* every storage call the latest operation made succeeded
AllStorageCallsSucceeded ==
    /\ last.save_attempted => last.saved
    /\ last.delete_attempted # {} => last.delete_ok

\* C1: add_private_device_factor_source returns Ok only if afterwards the
\* mnemonic is in secure storage under the factor source's id and the factor
\* source is in the (saved) profile; and adding a factor source whose id is
\* not yet in the profile, with all storage calls succeeding, returns Ok and
\* leaves both in place.
C1_OkOnlyIfBothAndNewIdIsAdded ==
    IsCall("add_private_device_factor_source") =>
        /\ last.ok =>
              /\ HasMnemonic(secure_storage, PrivateId)
              /\ PrivateId \in FactorSourceIds(profile)
              /\ PrivateId \in FactorSourceIds(persisted)
        /\ ( /\ PrivateId \notin FactorSourceIds(last.pre_profile)
             /\ last.mnemonic_saved
             /\ AllStorageCallsSucceeded )
           => /\ last.ok
              /\ HasMnemonic(secure_storage, PrivateId)
              /\ PrivateId \in FactorSourceIds(profile)

\* C2: add_factor_source with a factor source whose id is already in the
\* profile fails with UnableToSaveFactorSourceToProfile(id), leaves the
\* collection unchanged and makes no profile persistence write.
C2_DuplicateFactorSourceIsRejected ==
    ( /\ IsCall("add_factor_source")
      /\ factor_source_id(last.arg) \in FactorSourceIds(last.pre_profile) )
    => /\ ~last.ok
       /\ last.err = "UnableToSaveFactorSourceToProfile"
       /\ last.err_id = factor_source_id(last.arg)
       /\ profile.factor_sources = last.pre_profile.factor_sources
       /\ ~last.save_attempted

\* C3: add_factor_source with a factor source whose id is not yet in the
\* profile, persistence succeeding, returns Ok; the collection then has that
\* factor source as its last element and is longer by exactly one.
C3_NewFactorSourceIsAppended ==
    ( /\ IsCall("add_factor_source")
      /\ factor_source_id(last.arg) \notin FactorSourceIds(last.pre_profile)
      /\ AllStorageCallsSucceeded )
    => /\ last.ok
       /\ Len(profile.factor_sources) = Len(last.pre_profile.factor_sources) + 1
       /\ profile.factor_sources[Len(profile.factor_sources)] = last.arg

\* C4: when add_private_device_factor_source saved the mnemonic and its
\* add_factor_source step then failed, delete_mnemonic was attempted for that
\* same id (removing the mnemonic when the delete succeeds) and the error
\* returned is the error of add_factor_source, whatever the delete returned.
C4_CompensatingDelete ==
    ( /\ IsCall("add_private_device_factor_source")
      /\ last.mnemonic_saved
      /\ ~last.ok )
    => /\ last.delete_attempted = {PrivateId}
       /\ last.delete_ok => ~HasMnemonic(secure_storage, PrivateId)
       /\ last.err = "UnableToSaveFactorSourceToProfile"
       /\ last.err_id = PrivateId

\* a call whose compensating delete failed, and which still returned the
\* error of add_factor_source
C4_Witness ==
    /\ IsCall("add_private_device_factor_source")
    /\ last.mnemonic_saved
    /\ ~last.ok
    /\ last.delete_attempted = {PrivateId}
    /\ ~last.delete_ok
    /\ HasMnemonic(secure_storage, PrivateId)
    /\ last.err = "UnableToSaveFactorSourceToProfile"

\* C5: after add_private_device_factor_source for an id that was either in
\* both the profile and secure storage or in neither, and provided any
\* compensating delete succeeded, the id is again in both or in neither.
C5_BothOrNeither ==
    ( /\ IsCall("add_private_device_factor_source")
      /\ HasMnemonic(last.pre_storage, PrivateId)
            <=> PrivateId \in FactorSourceIds(last.pre_profile)
      /\ last.delete_attempted # {} => last.delete_ok )
    => ( HasMnemonic(secure_storage, PrivateId)
            <=> PrivateId \in FactorSourceIds(profile) )

----------------------------------------------------------------------------
(* Properties of the account operations. *)

\* the profile persistence write of the latest operation was made and failed
SaveFailed == last.save_attempted /\ ~last.saved

AddressesOn(p, network_id) ==
    LET accounts == AccountsOnNetwork(p, network_id)
    IN  {accounts[i].address : i \in 1..Len(accounts)}

IndicesOn(p, network_id) ==
    LET accounts == AccountsOnNetwork(p, network_id)
    IN  {IndexOfAccount(accounts[i]) : i \in 1..Len(accounts)}

\* the places of the profile holding an account with the address
PlacesOf(p, address) ==
    {<<i, j>> \in (1..Len(p.networks)) \X (1..(MaxAccounts + 1)) :
        /\ j <= Len(p.networks[i].accounts)
        /\ p.networks[i].accounts[j].address = address}

MutatingOps == {"add_factor_source", "add_account", "change_name_of_account"}

C7_DuplicateAccountIsRejected ==
    ( /\ IsCall("add_account")
      /\ last.arg.address \in AddressesOn(last.pre_profile, last.arg.network_id) )
    => /\ ~last.ok
       /\ last.err = "AccountAlreadyPresent"
       /\ profile = last.pre_profile
       /\ persisted = last.pre_persisted
       /\ Cardinality(PlacesOf(profile, last.arg.address)) = 1

\* a rejected add_account of an account that differs from the stored one of
\* the same address
C7_Witness ==
    /\ IsCall("add_account")
    /\ last.arg.address \in AddressesOn(last.pre_profile, last.arg.network_id)
    /\ last.arg \notin AllAccounts(last.pre_profile)
    /\ ~last.ok
    /\ last.err = "AccountAlreadyPresent"

C9_CreateDoesNotMutate ==
    IsCall("create_new_account") =>
        /\ profile = last.pre_profile
        /\ persisted = last.pre_persisted
        /\ secure_storage = last.pre_storage
        /\ last.ok =>
              /\ last.value[1] \notin AllAccounts(profile)
              /\ PlacesOf(profile, last.value[1].address) = {}

\* an account created for a network that already holds an account
C9_Witness ==
    /\ IsCall("create_new_account")
    /\ last.ok
    /\ AccountsOnNetwork(profile, last.arg[1]) # <<>>
    /\ last.value[1].network_id = last.arg[1]

\* C10: for a profile whose network N holds n accounts, at the derivation
\* indices 0..n-1 (n = 0 for a network with no entry), create_new_account(N,
\* name) returns an account on N whose transaction signing derivation path
\* has index n, an index no account on N uses.
C10_NextIndex ==
    ( /\ IsCall("create_new_account")
      /\ last.ok
      /\ IndicesOn(last.pre_profile, last.arg[1])
            = 0..(Len(AccountsOnNetwork(last.pre_profile, last.arg[1])) - 1) )
    => LET account == last.value[1]
           path == account.security_state.transaction_signing.derivation_path
       IN  /\ account.network_id = last.arg[1]
           /\ path.network_id = last.arg[1]
           /\ path.key_kind = "TransactionSigning"
           /\ path.index = Len(AccountsOnNetwork(last.pre_profile, last.arg[1]))
           /\ path.index \notin IndicesOn(last.pre_profile, last.arg[1])

\* with accounts at indices 0 and 1 on the network, index 2 is derived
C10_Witness ==
    /\ IsCall("create_new_account")
    /\ last.ok
    /\ IndicesOn(last.pre_profile, last.arg[1]) = {0, 1}
    /\ IndexOfAccount(last.value[1]) = 2

----------------------------------------------------------------------------
(* Properties of change_name_of_account. *)

\* the display names of the accounts of a profile, network by network
DisplayNamesOf(p) ==
    [i \in 1..Len(p.networks) |->
        [j \in 1..Len(p.networks[i].accounts) |->
            p.networks[i].accounts[j].display_name]]

\* C11: change_name_of_account with an address that no network holds fails
\* with UnknownAccount and leaves the display name of every account (and the
\* whole profile) as it was.
C11_UnknownAccountIsRejected ==
    ( /\ IsCall("change_name_of_account")
      /\ PlacesOf(last.pre_profile, last.arg[1]) = {} )
    => /\ ~last.ok
       /\ last.err = "UnknownAccount"
       /\ DisplayNamesOf(profile) = DisplayNamesOf(last.pre_profile)
       /\ profile = last.pre_profile

\* a rename of an absent address, tried on a profile that holds an account
\* with another name than the one asked for
C11_Witness ==
    /\ IsCall("change_name_of_account")
    /\ PlacesOf(last.pre_profile, last.arg[1]) = {}
    /\ \E a \in AllAccounts(last.pre_profile) : a.display_name # last.arg[2]
    /\ last.err = "UnknownAccount"

\* C12: change_name_of_account with the address of an account of the profile
\* returns Ok with that account carrying the new display name; the profile
\* holds the returned account at the place of the old one; every other
\* account, the number and order of networks and accounts, the factor sources
\* and the account's address, network_id, appearance and security state are
\* as before.
C12_RenameChangesOnlyTheName ==
    ( /\ IsCall("change_name_of_account")
      /\ PlacesOf(last.pre_profile, last.arg[1]) # {} )
    => /\ last.ok
       /\ Len(last.value) = 1
       /\ last.value[1].display_name = last.arg[2]
       /\ last.value[1].address = last.arg[1]
       /\ profile.factor_sources = last.pre_profile.factor_sources
       /\ Len(profile.networks) = Len(last.pre_profile.networks)
       /\ \A i \in 1..Len(profile.networks) :
              LET before == last.pre_profile.networks[i]
                  after == profile.networks[i]
              IN  /\ after.id = before.id
                  /\ Len(after.accounts) = Len(before.accounts)
                  /\ \A j \in 1..Len(after.accounts) :
                         IF before.accounts[j].address = last.arg[1]
                         THEN /\ after.accounts[j] = last.value[1]
                              /\ after.accounts[j]
                                    = [before.accounts[j] EXCEPT
                                          !.display_name = last.arg[2]]
                         ELSE after.accounts[j] = before.accounts[j]

\* the account of the second network renamed to a name it did not have, while
\* the account of the first network keeps another name
C12_Witness ==
    /\ IsCall("change_name_of_account")
    /\ last.ok
    /\ Len(profile.networks) = 2
    /\ profile.networks[2].accounts[1].address = last.arg[1]
    /\ last.pre_profile.networks[2].accounts[1].display_name # last.arg[2]
    /\ profile.networks[2].accounts[1].display_name = last.arg[2]
    /\ profile.networks[1].accounts[1].display_name # last.arg[2]

----------------------------------------------------------------------------
(* UnsecuredEntityControl::new, applied to factor instances drawn from a    *)
(* bounded set. The wallet variables stay as constructed; last holds the    *)
(* arguments first and the call with its result afterwards.                 *)

\* the wallet as constructed, with the arguments of a call still to be made
InputsDrawn(args) ==
    /\ profile = [factor_sources |-> <<FactorSourceDevice(Bdfs)>>, networks |-> <<>>]
    /\ persisted = profile
    /\ secure_storage = {[id |-> Bdfs.id, mnemonic |-> BdfsMnemonic]}
    /\ last = [op |-> "input", arg |-> args]
    /\ NoThreads

\* the call op applied to the drawn arguments, returning r
Returned(op, r) ==
    /\ last.op = "input"
    /\ last' = [op |-> op, arg |-> last.arg, ok |-> r.ok, err |-> r.err,
                value |-> r.value]
    /\ UNCHANGED <<profile, persisted, secure_storage, threads, write_lock>>

CAP26KeyKinds == {"TransactionSigning", "AuthenticationSigning", "MessageEncryption"}

\* a BIP44-like derivation path: it carries no key kind
BIP44LikePath(index) == [scheme |-> "bip44Olympia", index |-> index]

\* HierarchicalDeterministicFactorInstance::key_kind: the key kind of a CAP26
\* path, None for any other path
key_kind(factor_instance) ==
    IF "key_kind" \in DOMAIN factor_instance.derivation_path
    THEN <<factor_instance.derivation_path.key_kind>>
    ELSE <<>>

\* UnsecuredEntityControl::new without the check of authentication_signing
UnsecuredEntityControlNew_auth_unchecked(transaction_signing, authentication_signing) ==
    IF /\ key_kind(transaction_signing) # <<>>
       /\ key_kind(transaction_signing)[1] # "TransactionSigning"
    THEN [ok |-> FALSE, err |-> "WrongKeyKindOfTransactionSigningFactorInstance",
          value |-> <<>>]
    ELSE [ok |-> TRUE, err |-> "",
          value |-> <<[transaction_signing |-> transaction_signing,
                       authentication_signing |-> authentication_signing]>>]

\* UnsecuredEntityControl::new without the check of transaction_signing
UnsecuredEntityControlNew_tx_unchecked(transaction_signing, authentication_signing) ==
    IF /\ authentication_signing # <<>>
       /\ key_kind(authentication_signing[1]) # <<>>
       /\ key_kind(authentication_signing[1])[1] # "AuthenticationSigning"
    THEN [ok |-> FALSE, err |-> "WrongKeyKindOfAuthenticationSigningFactorInstance",
          value |-> <<>>]
    ELSE [ok |-> TRUE, err |-> "",
          value |-> <<[transaction_signing |-> transaction_signing,
                       authentication_signing |-> authentication_signing]>>]

\* UnsecuredEntityControl::new; authentication_signing is an Option: <<>> or
\* <<factor_instance>>
UnsecuredEntityControlNew(transaction_signing, authentication_signing) ==
    IF /\ authentication_signing # <<>>
       /\ key_kind(authentication_signing[1]) # <<>>
       /\ key_kind(authentication_signing[1])[1] # "AuthenticationSigning"
    THEN [ok |-> FALSE, err |-> "WrongKeyKindOfAuthenticationSigningFactorInstance",
          value |-> <<>>]
    ELSE IF /\ key_kind(transaction_signing) # <<>>
            /\ key_kind(transaction_signing)[1] # "TransactionSigning"
    THEN [ok |-> FALSE, err |-> "WrongKeyKindOfTransactionSigningFactorInstance",
          value |-> <<>>]
    ELSE [ok |-> TRUE, err |-> "",
          value |-> <<[transaction_signing |-> transaction_signing,
                       authentication_signing |-> authentication_signing]>>]

\* factor instances of the main device factor source: one per network, key
\* kind and index on a CAP26 account path, one per index on a BIP44-like path
FactorInstanceInputs ==
    LET paths == {AccountPath(n, k, i) : n \in NetworkIDs, k \in CAP26KeyKinds,
                                         i \in Indices}
                 \cup {BIP44LikePath(i) : i \in Indices}
    IN  {[factor_source_id |-> Bdfs.id,
          public_key |-> <<BdfsMnemonic, path>>,
          derivation_path |-> path] : path \in paths}

InitUnsecuredEntityControl ==
    \E transaction_signing \in FactorInstanceInputs,
       authentication_signing \in {<<>>} \cup {<<f>> : f \in FactorInstanceInputs} :
        InputsDrawn(<<transaction_signing, authentication_signing>>)

NewUnsecuredEntityControl ==
    Returned("UnsecuredEntityControl::new",
             UnsecuredEntityControlNew(last.arg[1], last.arg[2]))

SpecUnsecuredEntityControl ==
    InitUnsecuredEntityControl /\ [][NewUnsecuredEntityControl]_vars

\* the key kind of an Option of a factor instance: <<>> when the instance is
\* absent or its path carries none
KeyKindOfOption(option) == IF option = <<>> THEN <<>> ELSE key_kind(option[1])

\* C14: UnsecuredEntityControl::new given an authentication signing instance
\* whose key kind is set and is not AuthenticationSigning fails with
\* WrongKeyKindOfAuthenticationSigningFactorInstance, whatever the
\* transaction signing instance, and returns no value.
C14_WrongAuthenticationKeyKind ==
    ( /\ IsCall("UnsecuredEntityControl::new")
      /\ KeyKindOfOption(last.arg[2]) \notin {<<>>, <<"AuthenticationSigning">>} )
    => /\ ~last.ok
       /\ last.err = "WrongKeyKindOfAuthenticationSigningFactorInstance"
       /\ last.value = <<>>

\* a valid transaction signing instance with an authentication signing
\* instance tagged TransactionSigning
C14_Witness ==
    /\ IsCall("UnsecuredEntityControl::new")
    /\ key_kind(last.arg[1]) = <<"TransactionSigning">>
    /\ KeyKindOfOption(last.arg[2]) = <<"TransactionSigning">>
    /\ last.err = "WrongKeyKindOfAuthenticationSigningFactorInstance"

\* C15: UnsecuredEntityControl::new given a transaction signing instance
\* whose key kind is set and is not TransactionSigning, the authentication
\* signing instance being absent, untagged or tagged AuthenticationSigning,
\* fails with WrongKeyKindOfTransactionSigningFactorInstance; and every value
\* it returns holds the two arguments, the transaction signing one untagged
\* or tagged TransactionSigning, the authentication signing one absent,
\* untagged or tagged AuthenticationSigning.
C15_WrongTransactionKeyKind ==
    IsCall("UnsecuredEntityControl::new") =>
        /\ ( /\ key_kind(last.arg[1]) \notin {<<>>, <<"TransactionSigning">>}
             /\ KeyKindOfOption(last.arg[2]) \in {<<>>, <<"AuthenticationSigning">>} )
           => /\ ~last.ok
              /\ last.err = "WrongKeyKindOfTransactionSigningFactorInstance"
              /\ last.value = <<>>
        /\ last.ok =>
              /\ last.value = <<[transaction_signing |-> last.arg[1],
                                 authentication_signing |-> last.arg[2]]>>
              /\ key_kind(last.value[1].transaction_signing)
                    \in {<<>>, <<"TransactionSigning">>}
              /\ KeyKindOfOption(last.value[1].authentication_signing)
                    \in {<<>>, <<"AuthenticationSigning">>}

\* an authentication signing key offered as the transaction signing
\* instance, with a valid authentication signing instance next to it
C15_Witness ==
    /\ IsCall("UnsecuredEntityControl::new")
    /\ key_kind(last.arg[1]) = <<"AuthenticationSigning">>
    /\ KeyKindOfOption(last.arg[2]) = <<"AuthenticationSigning">>
    /\ last.err = "WrongKeyKindOfTransactionSigningFactorInstance"

----------------------------------------------------------------------------
(* The address constructors, applied to inputs drawn from bounded sets. An  *)
(* address made by from_public_key may be decoded again by try_from_bech32; *)
(* last.source then holds the from_public_key call it came from.            *)

PublicKeyInputs ==
    {derive_public_key(m, AccountPath(n, "TransactionSigning", i)) :
        m \in Mnemonics, n \in NetworkIDs, i \in Indices}

\* strings in the shape of an address, with known and foreign entity
\* prefixes, network parts and entity bytes, and two strings that do not decode
Bech32Inputs ==
    {<<p, n, "1", e, k>> :
        p \in {"account_", "identity_", "resource_", "foo_"},
        n \in {"rdx", "tdx_2_", "zzz"},
        e \in EntityBytes,
        k \in PublicKeyInputs}
    \cup {<<>>, <<"account_", "rdx">>}

AddressCallInputs ==
    {[call |-> "from_public_key", entity_type |-> t, public_key |-> k, network_id |-> n] :
        t \in AbstractEntityTypes, k \in PublicKeyInputs, n \in NetworkIDs}
    \cup {[call |-> "try_from_bech32", entity_type |-> t, s |-> s] :
             t \in AbstractEntityTypes, s \in Bech32Inputs}
    \cup {[call |-> "__with_address_and_network_id", entity_type |-> t, s |-> s,
            network_id |-> n] :
             t \in AbstractEntityTypes, s \in Bech32Inputs, n \in NetworkIDs}
    \cup {[call |-> "default", entity_type |-> "Resource"]}

InitAddresses == \E args \in AddressCallInputs : InputsDrawn(args)

\* the call op made with args returned r; source is the call that made the
\* string, if a call of the model made it
AddressReturned(op, args, r, source) ==
    /\ last' = [op |-> op, arg |-> args, ok |-> r.ok, err |-> r.err, value |-> r.value,
                source |-> source]
    /\ UNCHANGED <<profile, persisted, secure_storage, threads, write_lock>>

FromPublicKey ==
    /\ last.op = "input"
    /\ last.arg.call = "from_public_key"
    /\ AddressReturned("from_public_key", last.arg,
                       from_public_key(last.arg.entity_type, last.arg.public_key,
                                       last.arg.network_id), <<>>)

TryFromBech32 ==
    \/ /\ last.op = "input"
       /\ last.arg.call = "try_from_bech32"
       /\ AddressReturned("try_from_bech32", last.arg,
                          try_from_bech32(last.arg.entity_type, last.arg.s), <<>>)
    \/ /\ last.op = "from_public_key"
       /\ last.ok
       /\ \E t \in AbstractEntityTypes :
              AddressReturned("try_from_bech32",
                              [call |-> "try_from_bech32", entity_type |-> t,
                               s |-> last.value[1].address],
                              try_from_bech32(t, last.value[1].address),
                              <<[arg |-> last.arg, value |-> last.value[1]]>>)

WithAddressAndNetworkId ==
    /\ last.op = "input"
    /\ last.arg.call = "__with_address_and_network_id"
    /\ AddressReturned("__with_address_and_network_id", last.arg,
                       with_address_and_network_id(last.arg.entity_type, last.arg.s,
                                                   last.arg.network_id), <<>>)

DefaultResourceAddress ==
    /\ last.op = "input"
    /\ last.arg.call = "default"
    /\ AddressReturned("default", last.arg, ResourceAddressDefault, <<>>)

NextAddresses ==
    \/ FromPublicKey
    \/ TryFromBech32
    \/ WithAddressAndNetworkId
    \/ DefaultResourceAddress

SpecAddresses == InitAddresses /\ [][NextAddresses]_vars

\* the latest call decoded a string that decode_address decodes
DecodedCall ==
    /\ IsCall("try_from_bech32")
    /\ decode_address(last.arg.s).ok

\* C16: try_from_bech32 on a string that decodes to an entity type other than
\* the one of the address type fails with
\* MismatchingEntityTypeWhileDecodingAddress and returns no address.
C16_MismatchingEntityType ==
    ( /\ DecodedCall
      /\ decode_address(last.arg.s).entity_type # last.arg.entity_type )
    => /\ ~last.ok
       /\ last.err = "MismatchingEntityTypeWhileDecodingAddress"
       /\ last.value = <<>>

\* the address from_public_key made for an account, decoded as an identity
\* address
C16_Witness ==
    /\ IsCall("try_from_bech32")
    /\ last.source # <<>>
    /\ last.source[1].arg.entity_type = "Account"
    /\ last.arg.entity_type = "Identity"
    /\ last.err = "MismatchingEntityTypeWhileDecodingAddress"

\* the human-readable prefix of the decoded string does not start with the
\* prefix of the entity type of the address type
ForeignPrefix ==
    ~starts_with(decode_address(last.arg.s).hrp, hrp(last.arg.entity_type))

\* C17 as stated: try_from_bech32 on a decodable string with a foreign prefix
\* fails with MismatchingHRPWhileDecodingAddress and with no other error.
C17_ForeignPrefixIsMismatchingHRP ==
    (DecodedCall /\ ForeignPrefix)
    => /\ ~last.ok
       /\ last.err = "MismatchingHRPWhileDecodingAddress"

\* C17: try_from_bech32 on a decodable string with a foreign prefix never
\* returns an address; it fails with MismatchingHRPWhileDecodingAddress when
\* the decoded entity type is the one of the address type, and with
\* MismatchingEntityTypeWhileDecodingAddress when it is another one.
C17_ForeignPrefixIsRejected ==
    (DecodedCall /\ ForeignPrefix)
    => /\ ~last.ok
       /\ last.value = <<>>
       /\ last.err =
            IF decode_address(last.arg.s).entity_type = last.arg.entity_type
            THEN "MismatchingHRPWhileDecodingAddress"
            ELSE "MismatchingEntityTypeWhileDecodingAddress"

\* a string carrying the entity byte of an account under a foreign prefix,
\* decoded as an account address
C17_Witness ==
    /\ DecodedCall
    /\ ForeignPrefix
    /\ last.arg.entity_type = "Account"
    /\ decode_address(last.arg.s).entity_type = "Account"
    /\ last.err = "MismatchingHRPWhileDecodingAddress"

\* C18: for every public key, network N and entity type T of Account and
\* Identity, from_public_key returns an address on N, and try_from_bech32 of
\* type T applied to its address string returns an address equal to it, on
\* network N.
C18_RoundTrip ==
    /\ ( /\ IsCall("from_public_key")
         /\ last.arg.entity_type \in {"Account", "Identity"} )
       => /\ last.ok
          /\ last.value[1].network_id = last.arg.network_id
    /\ ( /\ IsCall("try_from_bech32")
         /\ last.source # <<>>
         /\ last.arg.entity_type = last.source[1].arg.entity_type )
       => /\ last.ok
          /\ last.value = <<last.source[1].value>>
          /\ last.value[1].network_id = last.source[1].arg.network_id
          /\ decode_address(last.arg.s).entity_type = last.arg.entity_type

\* an identity address made for Stokenet and decoded again
C18_Witness ==
    /\ IsCall("try_from_bech32")
    /\ last.source # <<>>
    /\ last.source[1].arg.entity_type = "Identity"
    /\ last.source[1].arg.network_id = "Stokenet"
    /\ last.arg.entity_type = "Identity"
    /\ last.ok
    /\ last.value[1].network_id = "Stokenet"

\* the calls that return an address
AddressCalls == {"from_public_key", "try_from_bech32", "__with_address_and_network_id",
                 "default"}

C19_ConstructorsKeepPrefix ==
    /\ (last.op \in AddressCalls \ {"default"} /\ last.ok)
       => starts_with(last.value[1].address, hrp(last.arg.entity_type))
    /\ ( /\ IsCall("__with_address_and_network_id")
         /\ ~starts_with(last.arg.s, hrp(last.arg.entity_type)) )
       => last.err = "panic"

----------------------------------------------------------------------------
(* FactorSources::try_from_iter, applied to sequences of factor sources     *)
(* drawn from a bounded set.                                                *)

RECURSIVE IdentifiedVecFromIter(_)
\* IdentifiedVecOf::from_iter: the elements appended one by one, an element
\* whose id is already present being skipped
IdentifiedVecFromIter(elements) ==
    IF elements = <<>>
    THEN <<>>
    ELSE IdentifiedVecAppend(IdentifiedVecFromIter(SubSeq(elements, 1, Len(elements) - 1)),
                             elements[Len(elements)]).vec

\* try_from_iter without the check of the length
try_from_iter_unchecked(into_iter) ==
    [ok |-> TRUE, err |-> "", value |-> <<IdentifiedVecFromIter(into_iter)>>]

\* FactorSources::try_from_iter
try_from_iter(into_iter) ==
    LET vec == IdentifiedVecFromIter(into_iter)
    IN  IF Len(vec) = 0
        THEN [ok |-> FALSE, err |-> "FactorSourcesMustNotBeEmpty", value |-> <<>>]
        ELSE [ok |-> TRUE, err |-> "", value |-> <<vec>>]

\* the sequences of at most MaxFactorSources factor sources
FactorSourceSequences ==
    UNION {[1..n -> FactorSourceInputs] : n \in 0..MaxFactorSources}

InitFactorSources == \E into_iter \in FactorSourceSequences : InputsDrawn(into_iter)

TryFromIter == Returned("try_from_iter", try_from_iter(last.arg))

SpecTryFromIter == InitFactorSources /\ [][TryFromIter]_vars

\* C20: FactorSources::try_from_iter given no element fails with
\* FactorSourcesMustNotBeEmpty; given at least one it returns a collection
\* with one element per distinct factor source id of the input, so of length
\* 1 for a single factor source.
C20_TryFromIter ==
    IsCall("try_from_iter") =>
        IF Len(last.arg) = 0
        THEN /\ ~last.ok
             /\ last.err = "FactorSourcesMustNotBeEmpty"
             /\ last.value = <<>>
        ELSE /\ last.ok
             /\ Len(last.value[1])
                   = Cardinality({factor_source_id(last.arg[i]) : i \in 1..Len(last.arg)})
             /\ IdsOf(last.value[1])
                   = {factor_source_id(last.arg[i]) : i \in 1..Len(last.arg)}
             /\ Len(last.arg) = 1 => Len(last.value[1]) = 1

\* three factor sources, two of them with the same id, make a collection of
\* two
C20_Witness ==
    /\ IsCall("try_from_iter")
    /\ Len(last.arg) = 3
    /\ factor_source_id(last.arg[1]) = factor_source_id(last.arg[3])
    /\ last.arg[1] # last.arg[3]
    /\ last.ok
    /\ Len(last.value[1]) = 2

----------------------------------------------------------------------------
(* Two callers mutating the profile of one wallet at the same time. A call  *)
(* takes the write lock of the profile, runs its closure on the profile,    *)
(* saves the profile when the closure succeeded, and releases the lock.     *)
(* last keeps the profile and the persisted snapshot the callers started    *)
(* from.                                                                    *)

Threads == {"A", "B"}

MutatingCalls ==
    {[op |-> "add_account", account |-> a] : a \in AccountInputs}
    \cup {[op |-> "add_factor_source", factor_source |-> f] : f \in FactorSourceInputs}
    \cup {[op |-> "change_name_of_account", address |-> a, to |-> n] :
             a \in AddressInputs, n \in DisplayNames}

\* the closure a mutating call hands to try_write or write, run on profile p
RunClosure(p, call) ==
    CASE call.op = "add_account" -> add_account_closure(p, call.account)
      [] call.op = "add_factor_source" ->
            add_factor_source_closure(p, call.factor_source)
      [] call.op = "change_name_of_account" ->
            LET set_name == [a \in AllAccounts(p) |-> set_display_name(a, call.to)]
                u == update_account(p, call.address, set_name)
            IN  [profile |-> u.profile, ok |-> u.some, err |-> ""]

\* a mutating call made on its own
RunCall(p, pers, call, save_ok) ==
    CASE call.op = "add_account" -> add_account(p, pers, call.account, save_ok)
      [] call.op = "add_factor_source" ->
            add_factor_source(p, pers, call.factor_source, save_ok)
      [] call.op = "change_name_of_account" ->
            change_name_of_account(p, pers, call.address, call.to, save_ok)

\* the wallet of Init, and that wallet after one add_account
StartingProfiles ==
    LET new == [factor_sources |-> <<FactorSourceDevice(Bdfs)>>, networks |-> <<>>]
    IN  {new} \cup {add_account_closure(new, a).profile : a \in AccountInputs}

InitConcurrent ==
    /\ profile \in StartingProfiles
    /\ persisted = profile
    /\ secure_storage = {[id |-> Bdfs.id, mnemonic |-> BdfsMnemonic]}
    /\ last = [op |-> "concurrent", pre_profile |-> profile, pre_persisted |-> profile]
    /\ threads \in [Threads -> {[call |-> c, pc |-> "issued", pre_profile |-> <<>>,
                                  ok |-> FALSE, err |-> "", save_ok |-> TRUE] :
                                    c \in MutatingCalls}]
    /\ write_lock = <<>>

\* the write lock taken whether or not it is free
AcquireWriteLock_unguarded(t) ==
    /\ threads[t].pc = "issued"
    /\ write_lock' = <<t>>
    /\ threads' = [threads EXCEPT ![t].pc = "locked"]
    /\ UNCHANGED <<profile, persisted, secure_storage, last>>

\* self.profile.write(): the caller waits until the lock is free
AcquireWriteLock(t) ==
    /\ threads[t].pc = "issued"
    /\ write_lock = <<>>
    /\ write_lock' = <<t>>
    /\ threads' = [threads EXCEPT ![t].pc = "locked"]
    /\ UNCHANGED <<profile, persisted, secure_storage, last>>

\* the closure edits the profile in place; when it fails the call returns
\* without saving
Mutate(t) ==
    /\ threads[t].pc = "locked"
    /\ \E c \in {RunClosure(profile, threads[t].call)} :
           /\ profile' = c.profile
           /\ IF c.ok
              THEN /\ threads' = [threads EXCEPT ![t].pc = "computed",
                                                 ![t].pre_profile = profile]
                   /\ UNCHANGED write_lock
              ELSE \E r \in {RunCall(profile, persisted, threads[t].call, TRUE)} :
                       /\ threads' = [threads EXCEPT ![t].pc = "done",
                                                     ![t].pre_profile = profile,
                                                     ![t].ok = r.ok, ![t].err = r.err]
                       /\ write_lock' = <<>>
    /\ UNCHANGED <<persisted, secure_storage, last>>

\* the edited profile is saved, or the save fails; the call returns
SaveProfile(t) ==
    /\ threads[t].pc = "computed"
    /\ \E save_ok \in BOOL :
         \E r \in {RunCall(threads[t].pre_profile, persisted, threads[t].call, save_ok)} :
           /\ persisted' = IF save_ok THEN profile ELSE persisted
           /\ threads' = [threads EXCEPT ![t].pc = "done", ![t].ok = r.ok,
                                         ![t].err = r.err, ![t].save_ok = save_ok]
    /\ write_lock' = <<>>
    /\ UNCHANGED <<profile, secure_storage, last>>

NextConcurrent ==
    \E t \in Threads :
        \/ AcquireWriteLock(t)
        \/ Mutate(t)
        \/ SaveProfile(t)

SpecConcurrent == InitConcurrent /\ [][NextConcurrent]_vars

\* the calls of the threads made one after the other in the given order,
\* from the state the threads started from, each save going as it went
Sequentially(order) ==
    LET first == RunCall(last.pre_profile, last.pre_persisted, threads[order[1]].call,
                         threads[order[1]].save_ok)
        second == RunCall(first.profile, first.persisted, threads[order[2]].call,
                          threads[order[2]].save_ok)
    IN  [profile |-> second.profile, persisted |-> second.persisted,
         results |-> (order[1] :> [ok |-> first.ok, err |-> first.err])
                     @@ (order[2] :> [ok |-> second.ok, err |-> second.err])]

\* C13: of two mutating calls issued at the same time at most one is between
\* running its closure and saving the profile, and it holds the write lock;
\* once both returned, the profile, the persisted snapshot and what each
\* call returned are those of the two calls made one after the other in one
\* of the two orders.
C13_MutationsAreSerialized ==
    IsCall("concurrent") =>
        /\ Cardinality({t \in Threads : threads[t].pc \in {"locked", "computed"}}) <= 1
        /\ \A t \in Threads :
               threads[t].pc \in {"locked", "computed"} => write_lock = <<t>>
        /\ (\A t \in Threads : threads[t].pc = "done") =>
               \E order \in {<<"A", "B">>, <<"B", "A">>} :
                   /\ profile = Sequentially(order).profile
                   /\ persisted = Sequentially(order).persisted
                   /\ \A t \in Threads :
                          /\ threads[t].ok = Sequentially(order).results[t].ok
                          /\ threads[t].err = Sequentially(order).results[t].err

\* both calls returned, and the rename succeeded on an account the wallet
\* did not hold at the start: the add_account of the other caller was applied
\* first
C13_Witness ==
    /\ IsCall("concurrent")
    /\ \A t \in Threads : threads[t].pc = "done"
    /\ threads["A"].call.op = "add_account"
    /\ threads["B"].call.op = "change_name_of_account"
    /\ threads["B"].call.address = threads["A"].call.account.address
    /\ threads["B"].call.to # threads["A"].call.account.display_name
    /\ PlacesOf(last.pre_profile, threads["B"].call.address) = {}
    /\ threads["A"].ok
    /\ threads["B"].ok
    /\ \E a \in AllAccounts(profile) :
           /\ a.address = threads["B"].call.address
           /\ a.display_name = threads["B"].call.to

----------------------------------------------------------------------------
(* Properties of the factor source collection of the profile. *)

WalletOps == {"add_factor_source", "add_private_device_factor_source",
              "create_new_account", "add_account", "change_name_of_account"}

\* C21: the factor source collection of the profile, in memory and saved,
\* holds at least one element after every Wallet operation, Ok or Err, and
\* every factor source it held before the operation is still in it.
C21_FactorSourcesNeverEmpty ==
    /\ Len(profile.factor_sources) >= 1
    /\ Len(persisted.factor_sources) >= 1
    /\ last.op \in WalletOps =>
          /\ Len(last.pre_profile.factor_sources) >= 1
          /\ \A i \in 1..Len(last.pre_profile.factor_sources) :
                 \E j \in 1..Len(profile.factor_sources) :
                     profile.factor_sources[j] = last.pre_profile.factor_sources[i]

\* add_factor_source called with the only factor source of the profile
C21_Witness ==
    /\ IsCall("add_factor_source")
    /\ Len(last.pre_profile.factor_sources) = 1
    /\ factor_source_id(last.arg) = factor_source_id(last.pre_profile.factor_sources[1])
    /\ Len(profile.factor_sources) = 1

FactorSourceOps == {"add_factor_source", "add_private_device_factor_source"}

\* the factor source the latest factor source operation was called with
AddedFactorSource ==
    IF IsCall("add_factor_source") THEN last.arg
    ELSE FactorSourceDevice(last.arg.factor_source)

\* no two factor sources of the profile share an id, and those the profile
\* held before the latest call are its first elements, in their order
FactorSourcesUniqueAndOrdered ==
    /\ \A i, j \in 1..Len(profile.factor_sources) :
           factor_source_id(profile.factor_sources[i])
               = factor_source_id(profile.factor_sources[j]) => i = j
    /\ last.op \in FactorSourceOps =>
          /\ Len(last.pre_profile.factor_sources) <= Len(profile.factor_sources)
          /\ SubSeq(profile.factor_sources, 1, Len(last.pre_profile.factor_sources))
                = last.pre_profile.factor_sources

\* C22: after any sequence of add_factor_source and
\* add_private_device_factor_source calls no two factor sources of the
\* profile share an id, the factor sources held before a call keep their
\* places, and the factor source of a call that returned Ok is the last
\* element.
C22_UniqueOrderedAddedLast ==
    /\ FactorSourcesUniqueAndOrdered
    /\ (last.op \in FactorSourceOps /\ last.ok) =>
          profile.factor_sources[Len(profile.factor_sources)] = AddedFactorSource

\* C22 with "added" read as appended by the call, whatever it returned
C22_AppendedIsLast ==
    /\ FactorSourcesUniqueAndOrdered
    /\ ( /\ last.op \in FactorSourceOps
         /\ Len(profile.factor_sources) > Len(last.pre_profile.factor_sources) ) =>
          /\ Len(profile.factor_sources) = Len(last.pre_profile.factor_sources) + 1
          /\ profile.factor_sources[Len(profile.factor_sources)] = AddedFactorSource

----------------------------------------------------------------------------
(* impl Ord for Account, applied to pairs of accounts built by Account::new *)
(* from factor instances of several mnemonics, networks and indices.        *)

\* the largest account index of the compared accounts
MaxPathIndex == 1

\* HDPathComponent of a hardened index: the index with the hardening bit, the
\* highest bit of the 32 bit value, set
HDPathComponentHardened(index) == [hardened |-> TRUE, index |-> index]

\* HDPath::last_component of an account path
last_component(path) == HDPathComponentHardened(path.index)

\* Ord::cmp of two integers
Cmp(l, r) == IF l < r THEN "Less" ELSE IF l = r THEN "Equal" ELSE "Greater"

\* Ord::cmp of two HDPathComponents, the order of their 32 bit values: the
\* highest bit decides, then the remaining bits
CmpHDPathComponent(l, r) ==
    IF l.hardened # r.hardened
    THEN (IF r.hardened THEN "Less" ELSE "Greater")
    ELSE Cmp(l.index, r.index)

\* NetworkID::discriminant
NetworkDiscriminant(network_id) == IF network_id = "Mainnet" THEN 1 ELSE 2

\* Account::cmp comparing the networks of the accounts before their indices
AccountCmp_network_first(a, b) ==
    IF a.network_id # b.network_id
    THEN Cmp(NetworkDiscriminant(a.network_id), NetworkDiscriminant(b.network_id))
    ELSE CmpHDPathComponent(
             last_component(a.security_state.transaction_signing.derivation_path),
             last_component(b.security_state.transaction_signing.derivation_path))

\* Account::cmp
AccountCmp(a, b) ==
    CmpHDPathComponent(
        last_component(a.security_state.transaction_signing.derivation_path),
        last_component(b.security_state.transaction_signing.derivation_path))

\* Account::partial_cmp
AccountPartialCmp(a, b) == <<AccountCmp(a, b)>>

\* a < b of PartialOrd
AccountLt(a, b) == AccountPartialCmp(a, b) = <<"Less">>

\* accounts of every mnemonic, network, index and display name
OrdAccountInputs ==
    {AccountNew(
         derive_account_creation_factor_instance(
             PrivateHierarchicalDeterministicFactorSource(
                 m, DeviceFactorSource(m, "iPhone")), n, i),
         name, from_number_of_accounts_on_network(i)) :
       m \in Mnemonics, n \in NetworkIDs, i \in 0..MaxPathIndex, name \in DisplayNames}

InitAccountOrd == \E a, b \in OrdAccountInputs : InputsDrawn(<<a, b>>)

CompareAccounts ==
    Returned("Account::cmp",
             [ok |-> TRUE, err |-> "",
              value |-> [cmp |-> AccountCmp(last.arg[1], last.arg[2]),
                         lt |-> AccountLt(last.arg[1], last.arg[2])]])

SpecAccountOrd == InitAccountOrd /\ [][CompareAccounts]_vars

\* C23: for any two accounts a and b, a < b exactly when the index of a's
\* transaction signing derivation path is smaller than that of b, and cmp
\* is Equal exactly when the indices are equal, whatever the addresses,
\* networks and display names of the two accounts.
C23_OrderedByIndex ==
    IsCall("Account::cmp") =>
        LET a == last.arg[1]
            b == last.arg[2]
        IN  /\ last.value.lt <=> IndexOfAccount(a) < IndexOfAccount(b)
            /\ last.value.cmp = "Equal" <=> IndexOfAccount(a) = IndexOfAccount(b)
            /\ last.value.cmp = "Greater" <=> IndexOfAccount(a) > IndexOfAccount(b)

\* an account at index 0 on Stokenet compared with one at index 1 on Mainnet,
\* of another mnemonic and under another name, is less
C23_Witness ==
    /\ IsCall("Account::cmp")
    /\ IndexOfAccount(last.arg[1]) = 0
    /\ IndexOfAccount(last.arg[2]) = 1
    /\ last.arg[1].network_id = "Stokenet"
    /\ last.arg[2].network_id = "Mainnet"
    /\ last.arg[1].address # last.arg[2].address
    /\ last.arg[1].display_name # last.arg[2].display_name
    /\ last.value.lt

----------------------------------------------------------------------------
(* PrivateHierarchicalDeterministicFactorSource::new and                    *)
(* Wallet::load_private_device_factor_source, applied to every pairing of a *)
(* mnemonic with a device factor source and to secure storages holding any  *)
(* mnemonic under any factor source id.                                     *)

\* PrivateHierarchicalDeterministicFactorSource::new with its outcome: the
\* pair, or the panic of assert_eq
PrivateHDNew(mnemonic_with_passphrase, factor_source) ==
    IF PrivateHDNewSucceeds(mnemonic_with_passphrase, factor_source)
    THEN [ok |-> TRUE, err |-> "",
          value |-> <<PrivateHierarchicalDeterministicFactorSource(
                          mnemonic_with_passphrase, factor_source)>>]
    ELSE Panicked

\* secure storages: under each device factor source id no mnemonic or any one
SecureStorages ==
    LET ids == {d.id : d \in DeviceFactorSources}
        contents == [ids -> Mnemonics \cup {0}]
    IN  {{[id |-> id, mnemonic |-> c[id]] : id \in {i \in ids : c[i] # 0}} :
            c \in contents}

PrivateHDCallInputs ==
    {[call |-> "new", mnemonic_with_passphrase |-> m, factor_source |-> d] :
        m \in Mnemonics, d \in DeviceFactorSources}
    \cup {[call |-> "load", device_factor_source |-> d, load_ok |-> load_ok] :
            d \in DeviceFactorSources, load_ok \in BOOL}

InitPrivateHD ==
    /\ profile = [factor_sources |-> <<FactorSourceDevice(Bdfs)>>, networks |-> <<>>]
    /\ persisted = profile
    /\ secure_storage \in SecureStorages
    /\ \E args \in PrivateHDCallInputs : last = [op |-> "input", arg |-> args]
    /\ NoThreads

NewPrivateHD ==
    /\ last.arg.call = "new"
    /\ Returned("PrivateHierarchicalDeterministicFactorSource::new",
                PrivateHDNew(last.arg.mnemonic_with_passphrase, last.arg.factor_source))

LoadPrivateDeviceFactorSource ==
    /\ last.arg.call = "load"
    /\ Returned("load_private_device_factor_source",
                load_private_device_factor_source(
                    secure_storage, last.arg.device_factor_source, last.arg.load_ok))

NextPrivateHD ==
    \/ NewPrivateHD
    \/ LoadPrivateDeviceFactorSource

SpecPrivateHD == InitPrivateHD /\ [][NextPrivateHD]_vars

PrivateHDCalls == {"PrivateHierarchicalDeterministicFactorSource::new",
                   "load_private_device_factor_source"}

\* the mnemonic corresponds to the public factor source record
Corresponds(mnemonic, factor_source) ==
    factor_source.id = FactorSourceIDFromMnemonic("device", mnemonic)

\* C24: new builds no pair of a mnemonic and a factor source whose id is not
\* the id computed from the mnemonic: it panics for such a pair and builds
\* every other one; load_private_device_factor_source, too, returns no such
\* pair, and panics when the mnemonic stored under the id of the factor
\* source does not correspond to it.
C24_NoMismatchingPair ==
    /\ (last.op \in PrivateHDCalls /\ last.ok) =>
          /\ Len(last.value) = 1
          /\ Corresponds(last.value[1].mnemonic_with_passphrase,
                         last.value[1].factor_source)
    /\ IsCall("PrivateHierarchicalDeterministicFactorSource::new") =>
          /\ last.ok <=> Corresponds(last.arg.mnemonic_with_passphrase,
                                     last.arg.factor_source)
          /\ ~last.ok => last.err = "panic"
          /\ last.ok => last.value[1] =
                 [mnemonic_with_passphrase |-> last.arg.mnemonic_with_passphrase,
                  factor_source |-> last.arg.factor_source]
    /\ ( /\ IsCall("load_private_device_factor_source")
         /\ last.arg.load_ok
         /\ \E e \in secure_storage :
                /\ e.id = last.arg.device_factor_source.id
                /\ ~Corresponds(e.mnemonic, last.arg.device_factor_source) ) =>
          (~last.ok /\ last.err = "panic")

\* new called with a mnemonic and the factor source of another mnemonic
C24_Witness ==
    /\ IsCall("PrivateHierarchicalDeterministicFactorSource::new")
    /\ ~Corresponds(last.arg.mnemonic_with_passphrase, last.arg.factor_source)
    /\ ~last.ok

\* load_private_device_factor_source reading the mnemonic of another factor
\* source from secure storage
C24_LoadWitness ==
    /\ IsCall("load_private_device_factor_source")
    /\ last.arg.load_ok
    /\ \E e \in secure_storage :
           /\ e.id = last.arg.device_factor_source.id
           /\ ~Corresponds(e.mnemonic, last.arg.device_factor_source)
    /\ last.err = "panic"

----------------------------------------------------------------------------
(* The setters of Account, applied to accounts a caller builds with         *)
(* Account::new, next to the operations of the Wallet. The setters edit the *)
(* account the caller holds and leave the wallet alone, so accounts are     *)
(* built while the wallet is as constructed.                                *)

EntityFlagsValues == {EntityFlagsDefault, {"deletedByUser"}}

OnLedgerSettingsValues == {OnLedgerSettingsDefault, "denyAll"}

AppearanceIDs == {from_number_of_accounts_on_network(n) : n \in 0..MaxAccounts}

\* the closures a caller hands to update_on_ledger_settings
OnLedgerSettingsUpdates == [OnLedgerSettingsValues -> OnLedgerSettingsValues]

\* Account::set_display_name
Account_set_display_name(a, new) == [a EXCEPT !.display_name = new]

\* Account::set_flags
set_flags(a, new) == [a EXCEPT !.flags = new]

\* Account::set_appearance_id
set_appearance_id(a, new) == [a EXCEPT !.appearance_id = new]

\* Account::set_on_ledger_settings
set_on_ledger_settings(a, new) == [a EXCEPT !.on_ledger_settings = new]

\* Account::update_on_ledger_settings
update_on_ledger_settings(a, update) ==
    [a EXCEPT !.on_ledger_settings = update[a.on_ledger_settings]]

AccountSetters == {"set_display_name", "set_flags", "set_appearance_id",
                   "set_on_ledger_settings", "update_on_ledger_settings"}

\* the factor instances a caller derives from the main device factor source
AccountCreationInstances ==
    {derive_account_creation_factor_instance(
         PrivateHierarchicalDeterministicFactorSource(BdfsMnemonic, Bdfs), n, i) :
       n \in NetworkIDs, i \in Indices}

\* the caller holds the account of the latest Account::new or setter call
HoldsAccount == last.op \in AccountSetters \cup {"Account::new"}

AccountCall(op, arg, account) ==
    /\ last' = [op |-> op, arg |-> arg, ok |-> TRUE, err |-> "", value |-> <<account>>]
    /\ UNCHANGED <<profile, persisted, secure_storage, threads, write_lock>>

NewAccount ==
    /\ IsCall("new")
    /\ \E factor_instance \in AccountCreationInstances, name \in DisplayNames,
          appearance_id \in AppearanceIDs :
           AccountCall("Account::new", <<factor_instance, name, appearance_id>>,
                       AccountNew(factor_instance, name, appearance_id))

SetDisplayName ==
    /\ HoldsAccount
    /\ \E new \in DisplayNames :
           AccountCall("set_display_name", <<last.value[1], new>>,
                       Account_set_display_name(last.value[1], new))

SetFlags ==
    /\ HoldsAccount
    /\ \E new \in EntityFlagsValues :
           AccountCall("set_flags", <<last.value[1], new>>,
                       set_flags(last.value[1], new))

SetAppearanceId ==
    /\ HoldsAccount
    /\ \E new \in AppearanceIDs :
           AccountCall("set_appearance_id", <<last.value[1], new>>,
                       set_appearance_id(last.value[1], new))

SetOnLedgerSettings ==
    /\ HoldsAccount
    /\ \E new \in OnLedgerSettingsValues :
           AccountCall("set_on_ledger_settings", <<last.value[1], new>>,
                       set_on_ledger_settings(last.value[1], new))

UpdateOnLedgerSettings ==
    /\ HoldsAccount
    /\ \E update \in OnLedgerSettingsUpdates :
           AccountCall("update_on_ledger_settings", <<last.value[1], update>>,
                       update_on_ledger_settings(last.value[1], update))

NextAccountFields ==
    \/ NewAccount
    \/ SetDisplayName
    \/ SetFlags
    \/ SetAppearanceId
    \/ SetOnLedgerSettings
    \/ UpdateOnLedgerSettings
    \/ GoesOn /\ AddFactorSource
    \/ GoesOn /\ AddPrivateDeviceFactorSource
    \/ GoesOn /\ CreateNewAccount
    \/ GoesOn /\ AddAccount
    \/ GoesOn /\ ChangeNameOfAccount

SpecAccountFields == Init /\ [][NextAccountFields]_vars

\* the fields of an account that are fixed when it is created
FixedFields(a) ==
    [address |-> a.address, network_id |-> a.network_id,
     security_state |-> a.security_state]

\* C25: no setter of Account and no operation of the Wallet changes the
\* address, the network id or the security state of an account, and
\* Account::new gives an account the network of its factor instance and the
\* security state that holds this instance for transaction signing and none
\* for authentication signing.
C25_FixedFieldsNeverChange ==
    /\ IsCall("Account::new") =>
          /\ last.value[1].network_id = last.arg[1].derivation_path.network_id
          /\ last.value[1].security_state =
                 [transaction_signing |-> last.arg[1], authentication_signing |-> <<>>]
    /\ last.op \in AccountSetters =>
          FixedFields(last.value[1]) = FixedFields(last.arg[1])
    /\ last.op \in WalletOps =>
          \A n \in NetworkIDs :
              LET before == AccountsOnNetwork(last.pre_profile, n)
                  after == AccountsOnNetwork(profile, n)
              IN  /\ Len(before) <= Len(after)
                  /\ \A i \in 1..Len(before) :
                         FixedFields(after[i]) = FixedFields(before[i])
    /\ \A a \in AllAccounts(profile) :
           /\ a.network_id = a.security_state.transaction_signing.derivation_path.network_id
           /\ a.address = AccountAddressOf(a.security_state.transaction_signing)
           /\ a.security_state.authentication_signing = <<>>

\* a setter has changed an account that no longer has the fields Account::new
\* gave it, except the fixed ones
C25_Witness ==
    /\ IsCall("update_on_ledger_settings")
    /\ last.value[1].on_ledger_settings # last.arg[1].on_ledger_settings
    /\ last.arg[1].flags # EntityFlagsDefault
    /\ last.arg[1].network_id = "Stokenet"

\* change_name_of_account has renamed an account of the profile
C25_WalletWitness ==
    /\ IsCall("change_name_of_account")
    /\ last.ok
    /\ \E n \in NetworkIDs :
           \E i \in 1..Len(AccountsOnNetwork(profile, n)) :
               AccountsOnNetwork(profile, n)[i].display_name
                   # AccountsOnNetwork(last.pre_profile, n)[i].display_name

----------------------------------------------------------------------------
(* BIP39Word::new, applied to every word of the English wordlist and to     *)
(* words that are not in it. The wordlist stands for the 2048 words of the  *)
(* bip39 crate: the words the tests name are at their places, the others are *)
(* named by their place.                                                    *)

\* the number of words of a BIP39 wordlist, the bound of U11
WordlistSize == 2048

\* bip39::Language::word_list()[i]
WordAt(i) ==
    CASE i = 0 -> "abandon"
      [] i = 1 -> "ability"
      [] i = WordlistSize - 2 -> "zone"
      [] i = WordlistSize - 1 -> "zoo"
      [] OTHER -> ToString(i)

\* bip39::Language::find_word: the place of the word in the wordlist, if any
find_word(word) ==
    IF \E i \in 0..(WordlistSize - 1) : WordAt(i) = word
    THEN <<CHOOSE i \in 0..(WordlistSize - 1) : WordAt(i) = word>>
    ELSE <<>>

\* U11::new: an Err for a value that does not fit into 11 bits
U11New(value) ==
    IF value < WordlistSize
    THEN [ok |-> TRUE, err |-> "", value |-> <<value>>]
    ELSE [ok |-> FALSE, err |-> "InvalidU11", value |-> <<>>]

\* index_of_word_in_bip39_wordlist_of_language counting the places from one
index_of_word_in_bip39_wordlist_of_language_one_based(word) ==
    LET found == find_word(word)
    IN  IF found = <<>> THEN [ok |-> TRUE, err |-> "", value |-> <<>>]
        ELSE IF U11New(found[1] + 1).ok
             THEN [ok |-> TRUE, err |-> "", value |-> U11New(found[1] + 1).value]
             ELSE Panicked

\* index_of_word_in_bip39_wordlist_of_language: None for an unknown word,
\* Some(index) otherwise; expect panics when U11::new returns an Err
index_of_word_in_bip39_wordlist_of_language(word) ==
    LET found == find_word(word)
    IN  IF found = <<>> THEN [ok |-> TRUE, err |-> "", value |-> <<>>]
        ELSE IF U11New(found[1]).ok
             THEN [ok |-> TRUE, err |-> "", value |-> U11New(found[1]).value]
             ELSE Panicked

\* BIP39Word::new(word, BIP39Language::English)
BIP39WordNew(word) ==
    LET index == index_of_word_in_bip39_wordlist_of_language(word)
    IN  IF ~index.ok THEN Panicked
        ELSE IF index.value = <<>>
             THEN [ok |-> FALSE, err |-> "UnknownBIP39Word", value |-> <<>>]
             ELSE [ok |-> TRUE, err |-> "",
                   value |-> <<[word |-> word, index |-> index.value[1],
                                language |-> "English"]>>]

Wordlist == {WordAt(i) : i \in 0..(WordlistSize - 1)}

UnknownWords == {"foobar", "", "Zoo", "zoo ", "abandonn", "-1"}

InitBIP39Word == \E word \in Wordlist \cup UnknownWords : InputsDrawn(word)

NewBIP39Word == Returned("BIP39Word::new", BIP39WordNew(last.arg))

SpecBIP39Word == InitBIP39Word /\ [][NewBIP39Word]_vars

\* C26: BIP39Word::new returns the error UnknownBIP39Word, and does not
\* panic, for a word that is not in the wordlist; for the word at place i of
\* the wordlist it returns a word with index i, between 0 and 2047, and for
\* "zoo" one with index 2047.
C26_IndexIsPlaceInWordlist ==
    IsCall("BIP39Word::new") =>
        /\ last.err # "panic"
        /\ last.arg \notin Wordlist => (~last.ok /\ last.err = "UnknownBIP39Word")
        /\ last.arg \in Wordlist =>
              /\ last.ok
              /\ last.value[1].word = last.arg
              /\ last.value[1].index \in 0..2047
              /\ \A i \in 0..(WordlistSize - 1) :
                     WordAt(i) = last.arg => last.value[1].index = i
        /\ last.arg = "zoo" => (last.ok /\ last.value[1].index = 2047)

\* the last word of the wordlist has been looked up
C26_Witness ==
    /\ IsCall("BIP39Word::new")
    /\ last.arg = "zoo"
    /\ last.ok

\* a word that is not in the wordlist has been looked up
C26_UnknownWitness ==
    /\ IsCall("BIP39Word::new")
    /\ last.arg = "foobar"
    /\ last.err = "UnknownBIP39Word"

----------------------------------------------------------------------------
(* DisplayName::new, applied to strings made of leading white space, a body *)
(* that neither starts nor ends with white space, and trailing white space. *)
(* A string is the sequence of its characters.                              *)

\* DisplayName::max_len
max_len == 30

\* the longest body, in characters of one byte, and the longest white space
\* on either side
MaxNameLen == 32

MaxPad == 1

\* the characters of two bytes a body ends with, at most
MaxWide == 1

\* char::is_whitespace
is_whitespace(c) == c \in {" ", "\t"}

\* char::len_utf8
len_utf8(c) == IF c = "é" THEN 2 ELSE 1

RECURSIVE str_len(_)
\* str::len: the length of the string in bytes
str_len(s) == IF s = <<>> THEN 0 ELSE len_utf8(Head(s)) + str_len(Tail(s))

RECURSIVE trim_start(_)
\* str::trim_start
trim_start(s) ==
    IF s # <<>> /\ is_whitespace(Head(s)) THEN trim_start(Tail(s)) ELSE s

RECURSIVE trim_end(_)
\* str::trim_end
trim_end(s) ==
    IF s # <<>> /\ is_whitespace(s[Len(s)])
    THEN trim_end(SubSeq(s, 1, Len(s) - 1))
    ELSE s

\* str::trim
trim(s) == trim_end(trim_start(s))

\* DisplayName::new that does not trim
DisplayNameNew_untrimmed(value) ==
    IF value = <<>>
    THEN [ok |-> FALSE, err |-> "InvalidDisplayNameEmpty", value |-> <<>>]
    ELSE IF str_len(value) > max_len
         THEN [ok |-> FALSE, err |-> "InvalidDisplayNameTooLong", value |-> <<>>]
         ELSE [ok |-> TRUE, err |-> "", value |-> <<[value |-> value]>>]

\* DisplayName::new that rejects a name of max_len bytes
DisplayNameNew_max_exclusive(value) ==
    LET trimmed == trim(value)
    IN  IF trimmed = <<>>
        THEN [ok |-> FALSE, err |-> "InvalidDisplayNameEmpty", value |-> <<>>]
        ELSE IF str_len(trimmed) >= max_len
             THEN [ok |-> FALSE, err |-> "InvalidDisplayNameTooLong", value |-> <<>>]
             ELSE [ok |-> TRUE, err |-> "", value |-> <<[value |-> trimmed]>>]

\* DisplayName::new
DisplayNameNew(value) ==
    LET trimmed == trim(value)
    IN  IF trimmed = <<>>
        THEN [ok |-> FALSE, err |-> "InvalidDisplayNameEmpty", value |-> <<>>]
        ELSE IF str_len(trimmed) > max_len
             THEN [ok |-> FALSE, err |-> "InvalidDisplayNameTooLong", value |-> <<>>]
             ELSE [ok |-> TRUE, err |-> "", value |-> <<[value |-> trimmed]>>]

\* white space of up to MaxPad characters
Pads == UNION {[1..n -> {" ", "\t"}] : n \in 0..MaxPad}

\* a body of n letters, with a space after the first of them if inner, and
\* wide characters of two bytes at its end
NameBody(n, inner, wide) ==
    LET letters == [i \in 1..n |-> "a"]
        spaced == IF inner /\ n >= 2
                  THEN <<"a", " ">> \o SubSeq(letters, 2, n)
                  ELSE letters
    IN  spaced \o [i \in 1..wide |-> "é"]

NameBodies == {NameBody(n, inner, wide) :
                  n \in 0..MaxNameLen, inner \in BOOL, wide \in 0..MaxWide}

InitDisplayName ==
    \E lead \in Pads, body \in NameBodies, trail \in Pads :
        InputsDrawn([lead |-> lead, body |-> body, trail |-> trail])

NewDisplayName ==
    Returned("DisplayName::new",
             DisplayNameNew(last.arg.lead \o last.arg.body \o last.arg.trail))

SpecDisplayName == InitDisplayName /\ [][NewDisplayName]_vars

\* C27: DisplayName::new applied to a body surrounded by white space fails
\* with InvalidDisplayNameEmpty when the body is empty, fails with
\* InvalidDisplayNameTooLong when the body is longer than 30, and otherwise
\* succeeds and stores the body; a body of length 30 is stored. The length
\* is the one the code measures, str::len.
C27_TrimmedEmptyTooLongOrStored ==
    IsCall("DisplayName::new") =>
        LET body == last.arg.body
        IN  /\ body = <<>> => (~last.ok /\ last.err = "InvalidDisplayNameEmpty")
            /\ (body # <<>> /\ str_len(body) > 30) =>
                   (~last.ok /\ last.err = "InvalidDisplayNameTooLong")
            /\ (body # <<>> /\ str_len(body) <= 30) =>
                   (last.ok /\ last.value[1].value = body)

\* a name of length 30 between white space has been stored
C27_Witness ==
    /\ IsCall("DisplayName::new")
    /\ str_len(last.arg.body) = 30
    /\ last.arg.lead # <<>>
    /\ last.arg.trail # <<>>
    /\ last.ok

\* white space only, and a name of length 31, have been rejected
C27_EmptyWitness ==
    /\ IsCall("DisplayName::new")
    /\ last.arg.body = <<>>
    /\ last.arg.lead # <<>>
    /\ last.err = "InvalidDisplayNameEmpty"

C27_TooLongWitness ==
    /\ IsCall("DisplayName::new")
    /\ str_len(last.arg.body) = 31
    /\ last.err = "InvalidDisplayNameTooLong"

----------------------------------------------------------------------------
(* Properties of the secrets kept by add_private_device_factor_source. *)

\* C28: when add_private_device_factor_source could not save the mnemonic it
\* returns the error of the storage and has done nothing else: the factor
\* sources of the profile and the saved profile are those from before the
\* call, no save of the profile was attempted, delete_mnemonic was not
\* called and secure storage holds what it held.
C28_MnemonicSaveFailureStops ==
    ( /\ IsCall("add_private_device_factor_source")
      /\ ~last.mnemonic_saved )
    => /\ ~last.ok
       /\ last.err = "SecureStorageWriteError"
       /\ profile = last.pre_profile
       /\ persisted = last.pre_persisted
       /\ ~last.save_attempted
       /\ last.delete_attempted = {}
       /\ secure_storage = last.pre_storage

\* the mnemonic of a factor source the profile does not hold could not be
\* saved
C28_Witness ==
    /\ IsCall("add_private_device_factor_source")
    /\ ~last.mnemonic_saved
    /\ PrivateId \notin FactorSourceIds(last.pre_profile)
    /\ ~last.ok

\* C29: a failed add_private_device_factor_source leaves in secure storage
\* the mnemonic of every factor source the profile holds after the call; and
\* after a call whose storage calls all succeeded, the factor source it was
\* called with, if the profile holds it, has its mnemonic in secure storage.
C29_SecretsOfHeldFactorSourcesStay ==
    IsCall("add_private_device_factor_source") =>
        /\ ~last.ok =>
              \A id \in FactorSourceIds(profile) :
                  HasMnemonic(last.pre_storage, id) => HasMnemonic(secure_storage, id)
        /\ ( /\ last.mnemonic_saved
             /\ AllStorageCallsSucceeded
             /\ PrivateId \in FactorSourceIds(profile) )
           => HasMnemonic(secure_storage, PrivateId)

\* C29 for failed calls only
C29_FailedCallKeepsSecrets ==
    (IsCall("add_private_device_factor_source") /\ ~last.ok) =>
        \A id \in FactorSourceIds(profile) :
            HasMnemonic(last.pre_storage, id) => HasMnemonic(secure_storage, id)

\* C29 for calls whose storage calls all succeeded only
C29_AddedFactorSourceHasItsSecret ==
    ( /\ IsCall("add_private_device_factor_source")
      /\ last.mnemonic_saved
      /\ AllStorageCallsSucceeded
      /\ PrivateId \in FactorSourceIds(profile) )
    => HasMnemonic(secure_storage, PrivateId)

----------------------------------------------------------------------------
(* Wallet::create_new_account_and_add_it_to_profile called by two callers.  *)
(* A call is two steps, create_new_account reading the profile (line 172)   *)
(* and add_account writing it under the write lock (line 173); the steps of *)
(* the callers interleave.                                                  *)

\* the calls each caller makes, at most
MaxCalls == 2

\* the display name a caller gives to its accounts
CallerName(t) == IF t = "A" THEN "Alice" ELSE "Bob"

InitCallers ==
    /\ profile = [factor_sources |-> <<FactorSourceDevice(Bdfs)>>, networks |-> <<>>]
    /\ persisted = profile
    /\ secure_storage = {[id |-> Bdfs.id, mnemonic |-> BdfsMnemonic]}
    /\ last = [op |-> "callers", caller |-> "", ok |-> TRUE, err |-> "", value |-> <<>>,
               pre_profile |-> profile, pre_persisted |-> profile]
    /\ threads = [t \in Threads |-> [pc |-> "idle", calls |-> 0, account |-> <<>>]]
    /\ write_lock = <<>>

\* let account = self.create_new_account(network_id, name)?
CallerCreatesAccount(t) ==
    /\ threads[t].pc = "idle"
    /\ threads[t].calls < MaxCalls
    /\ \E network_id \in NetworkIDs, load_ok \in BOOL :
         \E r \in {create_new_account(profile, secure_storage, network_id,
                                      CallerName(t), load_ok)} :
           /\ threads' = [threads EXCEPT
                             ![t] = [pc |-> IF r.ok THEN "created" ELSE "idle",
                                     calls |-> threads[t].calls + 1,
                                     account |-> r.value]]
           /\ last' = [op |-> "create_new_account", caller |-> t, ok |-> r.ok,
                       err |-> r.err, value |-> r.value,
                       pre_profile |-> profile, pre_persisted |-> persisted]
    /\ UNCHANGED <<profile, persisted, secure_storage, write_lock>>

\* self.add_account(account.clone())?
CallerAddsAccount(t) ==
    /\ threads[t].pc = "created"
    /\ \E save_ok \in BOOL :
         \E r \in {add_account(profile, persisted, threads[t].account[1], save_ok)} :
           /\ save_ok \/ r.save_attempted
           /\ profile' = r.profile
           /\ persisted' = r.persisted
           /\ last' = [op |-> "add_account", caller |-> t, ok |-> r.ok,
                       err |-> r.err, value |-> threads[t].account,
                       pre_profile |-> profile, pre_persisted |-> persisted]
    /\ threads' = [threads EXCEPT ![t] = [pc |-> "idle", calls |-> threads[t].calls,
                                          account |-> <<>>]]
    /\ UNCHANGED <<secure_storage, write_lock>>

NextCallers ==
    \E t \in Threads :
        \/ CallerCreatesAccount(t)
        \/ CallerAddsAccount(t)

SpecCallers == InitCallers /\ [][NextCallers]_vars

\* C30: whatever the interleaving of the create and add steps of the two
\* callers, no network holds two accounts with the same address or the same
\* index, the accounts of a network have the indices 0, 1, 2, ... in the
\* order they were added, and an add step whose account has an index that
\* is taken on its network returns AccountAlreadyPresent and leaves the
\* profile and the saved profile as they were.
C30_NoTwoAccountsShareAnIndex ==
    /\ \A n \in NetworkIDs :
           LET accounts == AccountsOnNetwork(profile, n)
           IN  /\ \A i, j \in 1..Len(accounts) :
                      ( \/ accounts[i].address = accounts[j].address
                        \/ IndexOfAccount(accounts[i]) = IndexOfAccount(accounts[j]) )
                      => i = j
               /\ \A i \in 1..Len(accounts) : IndexOfAccount(accounts[i]) = i - 1
    /\ ( /\ IsCall("add_account")
         /\ last.caller \in Threads
         /\ IndexOfAccount(last.value[1])
                \in IndicesOn(last.pre_profile, last.value[1].network_id) )
       => /\ ~last.ok
          /\ last.err = "AccountAlreadyPresent"
          /\ profile = last.pre_profile
          /\ persisted = last.pre_persisted

\* a caller's account was rejected: the other caller added the account of
\* the same index between the two steps of this caller
C30_Witness ==
    /\ IsCall("add_account")
    /\ last.caller = "B"
    /\ last.err = "AccountAlreadyPresent"
    /\ \E a \in AllAccounts(profile) :
           /\ a.address = last.value[1].address
           /\ a.display_name = CallerName("A")

\* a network holds two accounts, added by different callers
C30_SequentialWitness ==
    \E n \in NetworkIDs :
        /\ Len(AccountsOnNetwork(profile, n)) = 2
        /\ AccountsOnNetwork(profile, n)[1].display_name
               # AccountsOnNetwork(profile, n)[2].display_name

====
